---- MODULE Spec2Model ----
(***************************************************************************)
(* SailPoint IdentityNow "enable account" action.                          *)
(*                                                                         *)
(* The model follows src/src/script.mjs.  That file holds two variants of  *)
(* the action: the address-based one (lines 1-180, whose helpers           *)
(* getBaseURL and getAuthorizationHeader are in src/dist/index.js) and the *)
(* domain-based one (lines 181-409), whose `error` handler waits and       *)
(* retries.                                                                *)
(*                                                                         *)
(* Text is a sequence of tokens.  A token is a single character, or a      *)
(* whole literal of the source (such as "Failed to enable account") that   *)
(* contains neither "429" nor "rate limit" and cannot overlap one of them  *)
(* at its ends, so String.prototype.includes is decided exactly by         *)
(* Includes below.  The JavaScript value undefined is the one-token        *)
(* sequence Undefined.                                                     *)
(***************************************************************************)
EXTENDS Integers, Sequences, FiniteSets, TLC

VARIABLES
    variant,    \* "domain" (script.mjs 181-409) or "address" (script.mjs 1-180)
    params,     \* the job's input parameters
    context,    \* context.secrets and context.environment
    handler,    \* the handler that is running: "idle", "invoke", "error"
    pc,         \* its position: the await it is suspended at, or "done"
    failure,    \* params.error, the failure object given to `error`
    posts,      \* the requests fetch was called with, by the job so far
    waits,      \* the backoff waits completed by the job so far
    calls,      \* how many times the running handler called enableAccount
    resps,      \* the responses the running handler received, in order
    outcome,    \* how the handler ended: a returned result or a raised error
    halted,     \* the last call of `halt`: its params and the result it returned
    other       \* a second invocation, suspended at an await, when there is one

\* The state of invoke and error.
jobVars == <<variant, params, context, handler, pc, failure, posts,
             waits, calls, resps, outcome>>

vars == <<other, halted, variant, params, context, handler, pc, failure, posts,
          waits, calls, resps, outcome>>

-----------------------------------------------------------------------------
(* JavaScript values and strings.                                          *)

Undefined == <<"<undefined>">>

\* String(undefined) inside a template literal.
StrUndefined == <<"u","n","d","e","f","i","n","e","d">>

\* A JavaScript number (a positive integer) given by its decimal digits.
NumberValue(digits) == <<"<number>">> \o digits

\* `typeof v === 'number'`.
IsNumber(v) == v # <<>> /\ Head(v) = "<number>"

\* ToBoolean of a value: undefined and "" are falsy; a positive number is truthy.
Truthy(v) == v # Undefined /\ v # <<>>

\* ${v} inside a template literal.
ToStr(v) ==
    IF v = Undefined THEN StrUndefined
    ELSE IF IsNumber(v) THEN Tail(v)
    ELSE v

\* `typeof v === 'string'`.
IsString(v) == v # Undefined /\ ~IsNumber(v)

\* String.prototype.includes.
Includes(s, needle) ==
    \E i \in 1..(Len(s) - Len(needle) + 1) :
        SubSeq(s, i, i + Len(needle) - 1) = needle

\* String.prototype.startsWith.
StartsWith(s, prefix) ==
    /\ Len(s) >= Len(prefix)
    /\ SubSeq(s, 1, Len(prefix)) = prefix

DigitChar == <<"0","1","2","3","4","5","6","7","8","9">>

\* ${n} for a non-negative integer n.
RECURSIVE NumToStr(_)
NumToStr(n) ==
    IF n < 10 THEN <<DigitChar[n + 1]>>
    ELSE NumToStr(n \div 10) \o <<DigitChar[(n % 10) + 1]>>

IsDigit(c) == \E d \in 1..10 : DigitChar[d] = c

DigitVal(c) == (CHOOSE d \in 1..10 : DigitChar[d] = c) - 1

\* The value of a run of decimal digits.
RECURSIVE DigitsValue(_)
DigitsValue(s) ==
    IF s = <<>> THEN 0
    ELSE 10 * DigitsValue(SubSeq(s, 1, Len(s) - 1)) + DigitVal(s[Len(s)])

\* The longest prefix of s made of decimal digits.
RECURSIVE DigitPrefix(_)
DigitPrefix(s) ==
    IF s = <<>> \/ ~IsDigit(Head(s)) THEN <<>>
    ELSE <<Head(s)>> \o DigitPrefix(Tail(s))

RECURSIVE SkipSpaces(_)
SkipSpaces(s) ==
    IF s # <<>> /\ Head(s) = " " THEN SkipSpaces(Tail(s)) ELSE s

\* A JavaScript number as far as the timers need it: an integer or NaN.
Num(n) == [nan |-> FALSE, val |-> n]

NaN == [nan |-> TRUE, val |-> 0]

\* parseInt(s, 10): leading white space is skipped, an optional sign is read,
\* then the longest run of digits; NaN when there is no digit.
parseInt(s) ==
    LET t    == SkipSpaces(s)
        neg  == t # <<>> /\ Head(t) = "-"
        u    == IF t # <<>> /\ Head(t) \in {"-", "+"} THEN Tail(t) ELSE t
        digs == DigitPrefix(u)
    IN  IF digs = <<>> THEN NaN
        ELSE IF neg THEN Num(0 - DigitsValue(digs)) ELSE Num(DigitsValue(digs))

\* a || b on string-or-undefined values.
OrElse(a, b) == IF Truthy(a) THEN a ELSE b

-----------------------------------------------------------------------------
(* Literals of the source.                                                 *)

BearerPrefix == <<"B","e","a","r","e","r"," ">>

S429 == <<"4","2","9">>

SRateLimit == <<"r","a","t","e"," ","l","i","m","i","t">>

FailedToEnable == <<"Failed to enable account">>

UnrecoverablePrefix == <<"Unrecoverable error enabling account ">>

MsgInvalidAccountId == <<"Invalid or missing accountId parameter">>

MsgInvalidDomain == <<"Invalid or missing sailpointDomain parameter">>

MsgMissingToken == <<"Missing required secret: BEARER_AUTH_TOKEN">>

MsgInitiated == <<"Account enable operation initiated">>

MsgAfterRetry == <<"Account enable operation initiated after retry">>

MsgAfterRecovery == <<"Account enable operation initiated after service recovery">>

\* Messages of the errors the JavaScript runtime raises.
MsgInvalidURL == <<"Invalid URL">>

MsgStartsWithOfUndefined ==
    <<"Cannot read properties of undefined (reading 'startsWith')">>

MsgFetchFailed == <<"fetch failed">>

MsgNotJSON == <<"Unexpected token in JSON">>

MsgBodyUsed == <<"Body is unusable: Body has already been read">>

-----------------------------------------------------------------------------
(* Errors, results, responses.                                             *)

NoStatusCode == [has |-> FALSE, code |-> 0]

StatusCode(n) == [has |-> TRUE, code |-> n]

\* new Error(message), TypeError, SyntaxError: no statusCode property.
MkError(name, message) ==
    [name |-> name, message |-> message, statusCode |-> NoStatusCode]

NoError == MkError("none", <<>>)

NoResult ==
    [accountId |-> Undefined, enabled |-> FALSE, taskId |-> Undefined,
     message |-> Undefined, recoveryMethod |-> "none", address |-> Undefined]

Pending == [kind |-> "none", result |-> NoResult, error |-> NoError]

Returned(r) == [kind |-> "returned", result |-> r, error |-> NoError]

Raised(e) == [kind |-> "raised", result |-> NoResult, error |-> e]

\* A JSON object body with the five fields the action reads.
Obj(id, taskId, message, detailCode, trackingId) ==
    [id |-> id, taskId |-> taskId, message |-> message,
     detailCode |-> detailCode, trackingId |-> trackingId]

EmptyObj == Obj(Undefined, Undefined, Undefined, Undefined, Undefined)

JsonBody(o) == [json |-> TRUE, obj |-> o, text |-> <<>>]

TextBody(t) == [json |-> FALSE, obj |-> EmptyObj, text |-> t]

Response(status, body) == [status |-> status, body |-> body]

NoResponse == Response(0, TextBody(<<>>))

\* response.ok that takes every status below 500 for a success.
Ok_NotServerError(resp) == resp.status >= 200 /\ resp.status <= 499

\* response.ok: the status is in the range 200-299.
Ok(resp) == resp.status >= 200 /\ resp.status <= 299

-----------------------------------------------------------------------------
(* The inputs the model draws from.                                        *)

AccountIds == {Undefined, <<"a","/","b">>}

\* Tenant domains: a host name, and a string that is no host (it holds a space).
Domains == {Undefined, <<"t",".","i","o">>, <<"t"," ","o">>}

Tokens == {Undefined, <<"t","k">>, BearerPrefix \o <<"t","k">>}

VerificationIds == {Undefined, <<"x">>}

\* forceProvisioning: undefined, null, or a boolean.
ForceValues == {"undefined", "null", "true", "false"}

RateLimitSettings == {Undefined, <<"1","0","0","0">>, <<"5","x">>}

ServiceErrorSettings == {Undefined, <<"5","0","0">>}

\* Texts a platform or a harness may put into a message.
TxtRateLimit == <<"r","a","t","e"," ","l","i","m","i","t">>

TxtRateLimitCaps == <<"R","a","t","e"," ","L","i","m","i","t">>

TxtTrack == <<"t","4","2","9","1">>

TxtDown == <<"d","o","w","n">>

TxtDenied == <<"d","e","n","i","e","d">>

TxtNotFound == <<"N","F">>

\* The responses the platform may give to an enable POST.
Responses ==
    { Response(202, JsonBody(Obj(<<"i","1">>, Undefined, <<"o","k">>, Undefined, Undefined))),
      Response(202, JsonBody(Obj(Undefined, <<"t","2">>, Undefined, Undefined, Undefined))),
      Response(202, TextBody(<<>>)),
      Response(401, JsonBody(Obj(Undefined, Undefined, TxtDenied, Undefined, Undefined))),
      Response(404, JsonBody(Obj(Undefined, Undefined, Undefined, TxtNotFound, TxtTrack))),
      Response(429, JsonBody(EmptyObj)),
      Response(429, JsonBody(Obj(Undefined, Undefined, TxtRateLimitCaps, Undefined, Undefined))),
      Response(500, TextBody(TxtDown)),
      Response(503, JsonBody(Obj(Undefined, Undefined, TxtRateLimit, Undefined, Undefined))),
      Response(503, TextBody(<<>>)),
      Response(202, JsonBody(Obj(<<"i","1">>, <<"t","2">>, <<>>, Undefined, Undefined))),
      Response(202, JsonBody(Obj(<<>>, <<"t","2">>, Undefined, Undefined, Undefined))),
      Response(400, JsonBody(Obj(Undefined, Undefined, TxtDenied, TxtNotFound, Undefined))) }

Colon == <<": ">>

\* The failure objects a harness may hand to `error` on its own account.
Failures ==
    { [name |-> "Error", message |-> m, statusCode |-> sc] :
        m  \in { TxtDenied,
                 FailedToEnable \o Colon \o TxtRateLimit,
                 TxtRateLimitCaps,
                 FailedToEnable \o Colon \o TxtNotFound \o <<" - ">> \o TxtTrack },
        sc \in { NoStatusCode, StatusCode(400), StatusCode(401), StatusCode(404),
                 StatusCode(429), StatusCode(502), StatusCode(503),
                 StatusCode(504) } }

-----------------------------------------------------------------------------
(* enableAccount (domain-based variant, script.mjs 192-222).               *)

Unreserved ==
    {"a","b","c","d","e","f","g","h","i","j","k","l","m","n","o","p","q","r","s","t","u","v","w","x","y","z",
     "A","B","C","D","E","F","G","H","I","J","K","L","M","N","O","P","Q","R","S","T","U","V","W","X","Y","Z",
     "0","1","2","3","4","5","6","7","8","9",
     "-","_",".","!","~","*","'","(",")"}

PercentCode ==
    [c \in {"/","&","=","?","#",":","@","+",",",";","$"," ","%"} |->
        CASE c = "/" -> <<"%","2","F">>
          [] c = "&" -> <<"%","2","6">>
          [] c = "=" -> <<"%","3","D">>
          [] c = "?" -> <<"%","3","F">>
          [] c = "#" -> <<"%","2","3">>
          [] c = ":" -> <<"%","3","A">>
          [] c = "@" -> <<"%","4","0">>
          [] c = "+" -> <<"%","2","B">>
          [] c = "," -> <<"%","2","C">>
          [] c = ";" -> <<"%","3","B">>
          [] c = "$" -> <<"%","2","4">>
          [] c = " " -> <<"%","2","0">>
          [] c = "%" -> <<"%","2","5">>]

\* EncodeChars that leaves every character as it is.
EncodeChars_Raw(s) == s

\* encodeURIComponent on a string: every character but A-Z a-z 0-9 - _ . ! ~ * ' ( )
\* becomes its percent code.
RECURSIVE EncodeChars(_)
EncodeChars(s) ==
    IF s = <<>> THEN <<>>
    ELSE (IF Head(s) \in Unreserved THEN <<Head(s)>> ELSE PercentCode[Head(s)])
         \o EncodeChars(Tail(s))

\* encodeURIComponent(v): the argument is first converted to a string.
encodeURIComponent(v) == EncodeChars(ToStr(v))

\* The host of `https://${sailpointDomain}`: the text up to the first "/", "?" or "#".
RECURSIVE HostOf(_)
HostOf(s) ==
    IF s = <<>> \/ Head(s) \in {"/", "?", "#"} THEN <<>>
    ELSE <<Head(s)>> \o HostOf(Tail(s))

ForbiddenHostChars == {" ", "<", ">", "[", "]", "^", "|", "\\", "%"}

\* Whether `new URL(path, "https://" + domain)` parses: the host is not empty and
\* holds no forbidden host code point.
BaseParses(domain) ==
    LET h == HostOf(ToStr(domain))
    IN  /\ h # <<>>
        /\ \A i \in 1..Len(h) : h[i] \notin ForbiddenHostChars

\* The URL parser's handling of "." and ".." path segments.
RECURSIVE RemoveDotSegments(_, _)
RemoveDotSegments(segs, acc) ==
    IF segs = <<>> THEN acc
    ELSE IF Head(segs) = <<".">> THEN RemoveDotSegments(Tail(segs), acc)
    ELSE IF Head(segs) = <<".", ".">>
         THEN RemoveDotSegments(Tail(segs),
                                IF acc = <<>> THEN acc ELSE SubSeq(acc, 1, Len(acc) - 1))
    ELSE RemoveDotSegments(Tail(segs), Append(acc, Head(segs)))

\* new URL(`/v3/accounts/${encodedAccountId}/enable`, `https://${sailpointDomain}`)
EnableURL(encodedAccountId, sailpointDomain) ==
    [host |-> HostOf(ToStr(sailpointDomain)),
     path |-> RemoveDotSegments(<<<<"v3">>, <<"accounts">>, encodedAccountId, <<"enable">>>>,
                                <<>>)]

\* RequestBody that tests forceProvisioning for truthiness, as it tests
\* externalVerificationId.
RequestBody_Truthy(externalVerificationId, forceProvisioning) ==
    [externalVerificationId |->
         IF Truthy(externalVerificationId) THEN externalVerificationId ELSE Undefined,
     forceProvisioning |->
         IF forceProvisioning = "true" THEN forceProvisioning ELSE "undefined"]

\* The request body: a key is present (not Undefined) only when its test passes.
RequestBody(externalVerificationId, forceProvisioning) ==
    [externalVerificationId |->
         IF Truthy(externalVerificationId) THEN externalVerificationId ELSE Undefined,
     forceProvisioning |->
         IF forceProvisioning # "undefined" /\ forceProvisioning # "null"
         THEN forceProvisioning ELSE "undefined"]

\* AuthHeader that puts the prefix in front of every token.
AuthHeader_AlwaysPrefix(authToken) == BearerPrefix \o authToken

\* authToken.startsWith('Bearer ') ? authToken : `Bearer ${authToken}`
AuthHeader(authToken) ==
    IF StartsWith(authToken, BearerPrefix) THEN authToken ELSE BearerPrefix \o authToken

Thrown(e) == [thrown |-> TRUE, error |-> e, request |-> <<>>]

Sent(req) == [thrown |-> FALSE, error |-> NoError, request |-> <<req>>]

\* enableAccount up to its call of fetch: the request it sends, or the error it
\* raises before sending anything.
enableAccount(by, accountId, sailpointDomain, authToken, externalVerificationId, forceProvisioning) ==
    IF ~BaseParses(sailpointDomain)
    THEN Thrown(MkError("TypeError", MsgInvalidURL))
    ELSE IF authToken = Undefined
    THEN Thrown(MkError("TypeError", MsgStartsWithOfUndefined))
    ELSE Sent([kind          |-> "enable",
               by            |-> by,
               method        |-> "POST",
               url           |-> EnableURL(encodeURIComponent(accountId), sailpointDomain),
               authorization |-> AuthHeader(authToken),
               accept        |-> "application/json",
               contentType   |-> "application/json",
               body          |-> RequestBody(externalVerificationId, forceProvisioning)])

-----------------------------------------------------------------------------
(* invoke (domain-based variant, script.mjs 237-304).                      *)

\* ValidationError without its check of the secret.
ValidationError_NoSecretCheck(p, ctx) ==
    IF ~Truthy(p.accountId) \/ ~IsString(p.accountId) THEN MsgInvalidAccountId
    ELSE IF ~Truthy(p.sailpointDomain) \/ ~IsString(p.sailpointDomain) THEN MsgInvalidDomain
    ELSE <<>>

\* ValidationError with the check of sailpointDomain ahead of that of accountId.
ValidationError_DomainFirst(p, ctx) ==
    IF ~Truthy(p.sailpointDomain) \/ ~IsString(p.sailpointDomain) THEN MsgInvalidDomain
    ELSE IF ~Truthy(p.accountId) \/ ~IsString(p.accountId) THEN MsgInvalidAccountId
    ELSE IF ~Truthy(ctx.secrets.BEARER_AUTH_TOKEN) THEN MsgMissingToken
    ELSE <<>>

\* The validation at the head of invoke: the message of the first check that
\* fails, or <<>> when all pass.
ValidationError(p, ctx) ==
    IF ~Truthy(p.accountId) \/ ~IsString(p.accountId) THEN MsgInvalidAccountId
    ELSE IF ~Truthy(p.sailpointDomain) \/ ~IsString(p.sailpointDomain) THEN MsgInvalidDomain
    ELSE IF ~Truthy(ctx.secrets.BEARER_AUTH_TOKEN) THEN MsgMissingToken
    ELSE <<>>

\* SuccessResult that prefers the body's taskId over its id.
SuccessResult_TaskIdFirst(accountId, responseData, defaultMessage, recoveryMethod, address) ==
    [accountId      |-> accountId,
     enabled        |-> TRUE,
     taskId         |-> OrElse(responseData.taskId, responseData.id),
     message        |-> OrElse(responseData.message, defaultMessage),
     recoveryMethod |-> recoveryMethod,
     address        |-> address]

\* The result object of a successful response.
\* enabledAt, the wall-clock time of the return, is left out.  `address` is the
\* base URL in the address-based variant and absent in the domain-based one.
SuccessResult(accountId, responseData, defaultMessage, recoveryMethod, address) ==
    [accountId      |-> accountId,
     enabled        |-> TRUE,
     taskId         |-> OrElse(responseData.id, responseData.taskId),
     message        |-> OrElse(responseData.message, defaultMessage),
     recoveryMethod |-> recoveryMethod,
     address        |-> address]

\* `if (response.ok) { const responseData = await response.json(); return {...} }`:
\* response.json() raises a SyntaxError when the body is no JSON.
OnOk(accountId, resp, defaultMessage, recoveryMethod, address) ==
    IF resp.body.json
    THEN Returned(SuccessResult(accountId, resp.body.obj, defaultMessage, recoveryMethod,
                                address))
    ELSE Raised(MkError("SyntaxError", MsgNotJSON))

\* JsonErrorMessage that passes the platform's text on without the action's prefix.
JsonErrorMessage_Bare(statusCode, errorBody) ==
    IF Truthy(errorBody.detailCode)
    THEN errorBody.detailCode \o <<" - ">> \o OrElse(errorBody.trackingId, <<>>)
    ELSE IF Truthy(errorBody.message)
    THEN errorBody.message
    ELSE <<"HTTP ">> \o NumToStr(statusCode)

\* JsonErrorMessage that prefers the body's message over its detailCode.
JsonErrorMessage_MessageFirst(statusCode, errorBody) ==
    IF Truthy(errorBody.message)
    THEN FailedToEnable \o Colon \o errorBody.message
    ELSE IF Truthy(errorBody.detailCode)
    THEN FailedToEnable \o Colon \o errorBody.detailCode \o <<" - ">>
         \o OrElse(errorBody.trackingId, <<>>)
    ELSE FailedToEnable \o Colon \o <<"HTTP ">> \o NumToStr(statusCode)

\* The message built from a JSON error body.
JsonErrorMessage(statusCode, errorBody) ==
    IF Truthy(errorBody.detailCode)
    THEN FailedToEnable \o Colon \o errorBody.detailCode \o <<" - ">>
         \o OrElse(errorBody.trackingId, <<>>)
    ELSE IF Truthy(errorBody.message)
    THEN FailedToEnable \o Colon \o errorBody.message
    ELSE FailedToEnable \o Colon \o <<"HTTP ">> \o NumToStr(statusCode)

\* The message built from the raw text of an error body.
TextErrorMessage(statusCode, errorText) ==
    IF Truthy(errorText)
    THEN FailedToEnable \o Colon \o errorText
    ELSE FailedToEnable \o Colon \o <<"HTTP ">> \o NumToStr(statusCode)

\* The error with statusCode that invoke raises at its end.
StatusError(message, statusCode) ==
    [name |-> "Error", message |-> message, statusCode |-> StatusCode(statusCode)]

\* The error path of invoke.  response.json() is tried first; when it raises, the
\* catch block calls response.text() on the same response.  A Response whose body
\* was consumed by json() rejects the second read unless the host's Response
\* allows it (`reread`).
OnNotOk(resp, reread) ==
    IF resp.body.json
    THEN Raised(StatusError(JsonErrorMessage(resp.status, resp.body.obj), resp.status))
    ELSE IF reread
    THEN Raised(StatusError(TextErrorMessage(resp.status, resp.body.text), resp.status))
    ELSE Raised(MkError("TypeError", MsgBodyUsed))

\* invoke from the arrival of the response to its end.
InvokeOutcome(accountId, resp, reread, address) ==
    IF Ok(resp) THEN OnOk(accountId, resp, MsgInitiated, "none", address)
    ELSE OnNotOk(resp, reread)

-----------------------------------------------------------------------------
(* error (domain-based variant, script.mjs 312-387).                       *)

\* parseInt(context.environment?.RATE_LIMIT_BACKOFF_MS || '30000', 10)
rateLimitBackoffMs(ctx) ==
    parseInt(OrElse(ctx.environment.RATE_LIMIT_BACKOFF_MS, <<"3","0","0","0","0">>))

\* parseInt(context.environment?.SERVICE_ERROR_BACKOFF_MS || '10000', 10)
serviceErrorBackoffMs(ctx) ==
    parseInt(OrElse(ctx.environment.SERVICE_ERROR_BACKOFF_MS, <<"1","0","0","0","0">>))

\* IsRateLimited that looks at the statusCode alone.
IsRateLimited_StatusOnly(e) == e.statusCode.has /\ e.statusCode.code = 429

\* statusCode === 429 || error.message.includes('429')
\*                     || error.message.includes('rate limit')
IsRateLimited(e) ==
    \/ (e.statusCode.has /\ e.statusCode.code = 429)
    \/ Includes(e.message, S429)
    \/ Includes(e.message, SRateLimit)

\* [502, 503, 504].includes(statusCode)
IsServiceError(e) ==
    e.statusCode.has /\ e.statusCode.code \in {502, 503, 504}

\* new Error(`Unrecoverable error enabling account ${accountId}: ${error.message}`)
UnrecoverableError(accountId, e) ==
    MkError("Error", UnrecoverablePrefix \o ToStr(accountId) \o Colon \o e.message)

\* EntryBranch that takes every failure without statusCode for a rate limit.
EntryBranch_RetriesUnknown(e) ==
    IF IsRateLimited(e) \/ ~e.statusCode.has THEN "rl_wait"
    ELSE IF IsServiceError(e) THEN "se_wait"
    ELSE "throw"

\* Where `error` goes from its entry: into the rate-limit branch, else into the
\* service-error branch, else to the final throw.
EntryBranch(e) ==
    IF IsRateLimited(e) THEN "rl_wait"
    ELSE IF IsServiceError(e) THEN "se_wait"
    ELSE "throw"

\* Where `error` goes when a retry's response is not ok: out of the rate-limit
\* branch control reaches the service-error test, out of the service-error
\* branch it reaches the final throw.
AfterFailedRetry(branch, e) ==
    IF branch = "rl_fetch" /\ IsServiceError(e) THEN "se_wait" ELSE "throw"

\* BackoffOf with the two settings exchanged.
BackoffOf_Swapped(branch, ctx) ==
    IF branch = "rl_wait" THEN serviceErrorBackoffMs(ctx) ELSE rateLimitBackoffMs(ctx)

\* The delay given to setTimeout in each branch.
BackoffOf(branch, ctx) ==
    IF branch = "rl_wait" THEN rateLimitBackoffMs(ctx) ELSE serviceErrorBackoffMs(ctx)

\* WaitBeforeRetry when the timer's promise is not awaited: no wait is completed.
WaitBeforeRetry_NotAwaited(branch, ctx) == <<>>

\* The waits a branch completes before it calls enableAccount.
WaitBeforeRetry(branch, ctx) ==
    <<[by |-> "error", class |-> branch, delay |-> BackoffOf(branch, ctx)]>>

\* RetryOutcome with the default message of invoke in both branches.
RetryOutcome_PlainDefault(branch, accountId, resp) ==
    IF branch = "rl_fetch"
    THEN OnOk(accountId, resp, MsgInitiated, "rate_limit_retry", Undefined)
    ELSE OnOk(accountId, resp, MsgInitiated, "service_retry", Undefined)

\* The result a branch returns when its retry's response is ok.
RetryOutcome(branch, accountId, resp) ==
    IF branch = "rl_fetch"
    THEN OnOk(accountId, resp, MsgAfterRetry, "rate_limit_retry", Undefined)
    ELSE OnOk(accountId, resp, MsgAfterRecovery, "service_retry", Undefined)

-----------------------------------------------------------------------------
(* The address-based variant: invoke and error of script.mjs 76-158, with  *)
(* getBaseURL, getAuthorizationHeader and getClientCredentialsToken as the *)
(* bundle src/dist/index.js holds them.  The params of the model hold no   *)
(* JSONPath template, so resolveJSONPathTemplates returns them unchanged.  *)

MsgNoURL ==
    <<"No URL specified. Provide address parameter or ADDRESS environment variable">>

MsgNoAuth == <<"No authentication configured. Provide one of: ...">>

MsgCCEnv == <<"OAuth2 Client Credentials flow requires TOKEN_URL and CLIENT_ID in env">>

MsgNoAccessToken == <<"No access_token in OAuth2 response">>

MsgTokenFailed == <<"OAuth2 token request failed: ">>

\* String.prototype.endsWith('/')
EndsWithSlash(s) == s # <<>> /\ s[Len(s)] = "/"

\* getBaseURL that prefers the environment's ADDRESS to params.address.
getBaseURL_EnvironmentFirst(p, ctx) ==
    LET address == OrElse(ctx.environment.ADDRESS, p.address)
    IN  IF ~Truthy(address) THEN Undefined
        ELSE IF EndsWithSlash(address) THEN SubSeq(address, 1, Len(address) - 1)
        ELSE address

\* getBaseURL: params.address, else environment ADDRESS, less one trailing "/";
\* Undefined stands for the raised MsgNoURL error.
getBaseURL(p, ctx) ==
    LET address == OrElse(p.address, ctx.environment.ADDRESS)
    IN  IF ~Truthy(address) THEN Undefined
        ELSE IF EndsWithSlash(address) THEN SubSeq(address, 1, Len(address) - 1)
        ELSE address

\* btoa: the base64 text of s, kept as an uninterpreted, injective coding.
btoa(s) == <<"base64(">> \o s \o <<")">>

\* AuthMethod that looks for basic auth before the bearer token.
AuthMethod_BasicFirst(ctx) ==
    LET secrets == ctx.secrets
    IN  IF Truthy(secrets.BASIC_PASSWORD) /\ Truthy(secrets.BASIC_USERNAME) THEN "basic"
        ELSE IF Truthy(secrets.BEARER_AUTH_TOKEN) THEN "bearer"
        ELSE IF Truthy(secrets.OAUTH2_AUTHORIZATION_CODE_ACCESS_TOKEN) THEN "authorization_code"
        ELSE IF Truthy(secrets.OAUTH2_CLIENT_CREDENTIALS_CLIENT_SECRET)
             THEN "client_credentials"
        ELSE "none"

\* The method getAuthorizationHeader settles on: the first that is configured.
AuthMethod(ctx) ==
    LET secrets == ctx.secrets
    IN  IF Truthy(secrets.BEARER_AUTH_TOKEN) THEN "bearer"
        ELSE IF Truthy(secrets.BASIC_PASSWORD) /\ Truthy(secrets.BASIC_USERNAME) THEN "basic"
        ELSE IF Truthy(secrets.OAUTH2_AUTHORIZATION_CODE_ACCESS_TOKEN) THEN "authorization_code"
        ELSE IF Truthy(secrets.OAUTH2_CLIENT_CREDENTIALS_CLIENT_SECRET)
             THEN "client_credentials"
        ELSE "none"

\* The header of the three methods that need no network call.
StaticAuthHeader(ctx) ==
    LET secrets == ctx.secrets
    IN  CASE AuthMethod(ctx) = "bearer" -> AuthHeader(secrets.BEARER_AUTH_TOKEN)
          [] AuthMethod(ctx) = "basic" ->
                <<"B","a","s","i","c"," ">>
                \o btoa(secrets.BASIC_USERNAME \o <<":">> \o secrets.BASIC_PASSWORD)
          [] AuthMethod(ctx) = "authorization_code" ->
                AuthHeader(secrets.OAUTH2_AUTHORIZATION_CODE_ACCESS_TOKEN)
          [] OTHER -> Undefined

\* The token request of getClientCredentialsToken.
TokenRequest(ctx) ==
    LET env      == ctx.environment
        inParams == env.OAUTH2_CLIENT_CREDENTIALS_AUTH_STYLE = <<"InParams">>
        secret   == ctx.secrets.OAUTH2_CLIENT_CREDENTIALS_CLIENT_SECRET
        clientId == env.OAUTH2_CLIENT_CREDENTIALS_CLIENT_ID
    IN  [kind          |-> "token",
         by            |-> "invoke",
         method        |-> "POST",
         url           |-> env.OAUTH2_CLIENT_CREDENTIALS_TOKEN_URL,
         authorization |-> IF inParams THEN Undefined
                           ELSE <<"B","a","s","i","c"," ">>
                                \o btoa(clientId \o <<":">> \o secret),
         accept        |-> "application/json",
         contentType   |-> "application/x-www-form-urlencoded",
         body          |->
             [grant_type    |-> <<"client_credentials">>,
              scope         |-> IF Truthy(env.OAUTH2_CLIENT_CREDENTIALS_SCOPE)
                                THEN env.OAUTH2_CLIENT_CREDENTIALS_SCOPE ELSE Undefined,
              audience      |-> IF Truthy(env.OAUTH2_CLIENT_CREDENTIALS_AUDIENCE)
                                THEN env.OAUTH2_CLIENT_CREDENTIALS_AUDIENCE ELSE Undefined,
              client_id     |-> IF inParams THEN clientId ELSE Undefined,
              client_secret |-> IF inParams THEN secret ELSE Undefined]]

\* getAuthorizationHeader up to its first await: an error, a header, or the token
\* request of the client-credentials flow.
getAuthorizationHeader(ctx) ==
    LET env == ctx.environment
    IN  CASE AuthMethod(ctx) = "none" ->
                [thrown |-> TRUE, error |-> MkError("Error", MsgNoAuth),
                 header |-> Undefined, request |-> <<>>]
          [] AuthMethod(ctx) = "client_credentials" ->
                IF ~Truthy(env.OAUTH2_CLIENT_CREDENTIALS_TOKEN_URL)
                   \/ ~Truthy(env.OAUTH2_CLIENT_CREDENTIALS_CLIENT_ID)
                THEN [thrown |-> TRUE, error |-> MkError("Error", MsgCCEnv),
                      header |-> Undefined, request |-> <<>>]
                ELSE [thrown |-> FALSE, error |-> NoError, header |-> Undefined,
                      request |-> <<TokenRequest(ctx)>>]
          [] OTHER ->
                [thrown |-> FALSE, error |-> NoError, header |-> StaticAuthHeader(ctx),
                 request |-> <<>>]

\* JSON.stringify of a token endpoint's error body, as one token.
TxtJson == <<"{...}">>

\* TokenOutcome that hands on whatever access_token a successful body holds,
\* without the test `if (!data.access_token)`.
TokenOutcome_NoTokenCheck(resp, reread) ==
    IF ~Ok(resp)
    THEN [thrown |-> TRUE, token |-> Undefined,
          error |-> MkError("Error", MsgTokenFailed \o NumToStr(resp.status)
                                     \o <<" - ">> \o TxtJson)]
    ELSE IF ~resp.body.json
    THEN [thrown |-> TRUE, token |-> Undefined, error |-> MkError("SyntaxError", MsgNotJSON)]
    ELSE [thrown |-> FALSE, token |-> resp.body.obj.access_token, error |-> NoError]

\* getClientCredentialsToken from the arrival of the token response: the access
\* token, or the error raised.
TokenOutcome(resp, reread) ==
    IF ~Ok(resp)
    THEN IF resp.body.json
         THEN [thrown |-> TRUE, token |-> Undefined,
               error |-> MkError("Error", MsgTokenFailed \o NumToStr(resp.status)
                                          \o <<" - ">> \o TxtJson)]
         ELSE IF reread
         THEN [thrown |-> TRUE, token |-> Undefined,
               error |-> MkError("Error", MsgTokenFailed \o NumToStr(resp.status)
                                          \o <<" - ">> \o resp.body.text)]
         ELSE [thrown |-> TRUE, token |-> Undefined,
               error |-> MkError("TypeError", MsgBodyUsed)]
    ELSE IF ~resp.body.json
    THEN [thrown |-> TRUE, token |-> Undefined, error |-> MkError("SyntaxError", MsgNotJSON)]
    ELSE IF ~Truthy(resp.body.obj.access_token)
    THEN [thrown |-> TRUE, token |-> Undefined, error |-> MkError("Error", MsgNoAccessToken)]
    ELSE [thrown |-> FALSE, token |-> resp.body.obj.access_token, error |-> NoError]

\* enableAccount of the address-based variant (script.mjs 14-44) up to its call
\* of fetch: the URL is a plain string and authToken is always a string here.
enableAccountAtAddress(by, accountId, baseUrl, authToken, externalVerificationId, forceProvisioning) ==
    Sent([kind          |-> "enable",
          by            |-> by,
          method        |-> "POST",
          url           |-> baseUrl \o <<"/v3/accounts/">> \o encodeURIComponent(accountId)
                            \o <<"/enable">>,
          authorization |-> AuthHeader(authToken),
          accept        |-> "application/json",
          contentType   |-> "application/json",
          body          |-> RequestBody(externalVerificationId, forceProvisioning)])

-----------------------------------------------------------------------------
(* The job: its inputs, and the handlers as the harness calls them.        *)

Environments ==
    { [RATE_LIMIT_BACKOFF_MS |-> rl, SERVICE_ERROR_BACKOFF_MS |-> se] :
        rl \in RateLimitSettings, se \in ServiceErrorSettings }

NoEnvironment ==
    [RATE_LIMIT_BACKOFF_MS |-> Undefined, SERVICE_ERROR_BACKOFF_MS |-> Undefined]

DomainParams ==
    [accountId : AccountIds, sailpointDomain : Domains,
     externalVerificationId : VerificationIds, forceProvisioning : ForceValues]

DomainContexts ==
    [secrets : [BEARER_AUTH_TOKEN : Tokens], environment : {NoEnvironment}]

Addresses == {Undefined, <<"h","/">>}

EnvAddresses == {Undefined, <<"g">>}

AddressParams ==
    [accountId : AccountIds, address : Addresses,
     externalVerificationId : VerificationIds, forceProvisioning : ForceValues]

\* The client-credentials settings of the environment.
ClientCredentialSettings ==
    { [url |-> <<"u">>, id |-> <<"c">>, scope |-> Undefined, audience |-> Undefined,
       style |-> Undefined],
      [url |-> <<"u">>, id |-> <<"c">>, scope |-> <<"s">>, audience |-> <<"a">>,
       style |-> <<"InParams">>],
      [url |-> Undefined, id |-> <<"c">>, scope |-> Undefined, audience |-> Undefined,
       style |-> Undefined],
      [url |-> <<"u">>, id |-> Undefined, scope |-> Undefined, audience |-> Undefined,
       style |-> Undefined] }

AddressContexts ==
    { [secrets |->
          [BEARER_AUTH_TOKEN |-> bearer,
           BASIC_USERNAME |-> user,
           BASIC_PASSWORD |-> pass,
           OAUTH2_AUTHORIZATION_CODE_ACCESS_TOKEN |-> code,
           OAUTH2_CLIENT_CREDENTIALS_CLIENT_SECRET |-> secret],
       environment |->
          [ADDRESS |-> addr,
           OAUTH2_CLIENT_CREDENTIALS_TOKEN_URL |-> cc.url,
           OAUTH2_CLIENT_CREDENTIALS_CLIENT_ID |-> cc.id,
           OAUTH2_CLIENT_CREDENTIALS_SCOPE |-> cc.scope,
           OAUTH2_CLIENT_CREDENTIALS_AUDIENCE |-> cc.audience,
           OAUTH2_CLIENT_CREDENTIALS_AUTH_STYLE |-> cc.style]] :
        bearer \in {Undefined, <<"t","k">>},
        user   \in {Undefined, <<"u">>},
        pass   \in {Undefined, <<"p">>},
        code   \in {Undefined, BearerPrefix \o <<"a","c">>},
        secret \in {Undefined, <<"s">>},
        addr   \in EnvAddresses,
        cc     \in ClientCredentialSettings }

\* The responses a token endpoint may give.
TokenBody(accessToken) ==
    [json |-> TRUE, obj |-> [access_token |-> accessToken], text |-> <<>>]

TokenResponses ==
    { Response(200, TokenBody(<<"a","t">>)),
      Response(200, TokenBody(Undefined)),
      Response(200, [json |-> FALSE, obj |-> [access_token |-> Undefined], text |-> TxtDown]),
      Response(401, TokenBody(Undefined)),
      Response(500, [json |-> FALSE, obj |-> [access_token |-> Undefined], text |-> TxtDown]) }

\* No second invocation.
NoOther == [present |-> FALSE]

\* The reasons a harness may give for halting the job.
HaltReasons == {Undefined, <<"timeout">>, <<"user_requested">>}

\* No call of halt yet.
NoHalt ==
    [called |-> FALSE,
     params |-> [reason |-> Undefined, accountId |-> Undefined],
     result |-> [accountId |-> Undefined, reason |-> Undefined,
                 cleanupCompleted |-> FALSE]]

Init ==
    /\ \/ /\ variant = "domain"
          /\ params \in DomainParams
          /\ context \in DomainContexts
       \/ /\ variant = "address"
          /\ params \in AddressParams
          /\ context \in AddressContexts
    /\ handler = "idle"
    /\ pc = "start"
    /\ failure = NoError
    /\ posts = <<>>
    /\ waits = <<>>
    /\ calls = 0
    /\ resps = <<>>
    /\ outcome = Pending
    /\ halted = NoHalt
    /\ other = NoOther

\* invoke(params, context) of the domain-based variant from its entry to its
\* first await: validation, then enableAccount up to the call of fetch.
Invoke_Call ==
    /\ variant = "domain"
    /\ handler = "idle"
    /\ handler' = "invoke"
    /\ LET invalid == ValidationError(params, context)
           call    == enableAccount("invoke", params.accountId, params.sailpointDomain,
                                    context.secrets.BEARER_AUTH_TOKEN,
                                    params.externalVerificationId,
                                    params.forceProvisioning)
       IN  IF invalid # <<>>
           THEN /\ outcome' = Raised(MkError("Error", invalid))
                /\ pc' = "done"
                /\ UNCHANGED <<posts, calls>>
           ELSE IF call.thrown
           THEN /\ outcome' = Raised(call.error)
                /\ pc' = "done"
                /\ calls' = calls + 1
                /\ UNCHANGED posts
           ELSE /\ posts' = posts \o call.request
                /\ pc' = "fetch"
                /\ calls' = calls + 1
                /\ UNCHANGED outcome
    /\ UNCHANGED <<other, halted, variant, params, context, failure, waits, resps>>

\* invoke(params, context) of the address-based variant from its entry to its
\* first await: getBaseURL, getAuthorizationHeader, then either the token request
\* of the client-credentials flow or enableAccount up to the call of fetch.
Address_Invoke_Call ==
    /\ variant = "address"
    /\ handler = "idle"
    /\ handler' = "invoke"
    /\ LET baseUrl == getBaseURL(params, context)
           auth    == getAuthorizationHeader(context)
           call    == enableAccountAtAddress("invoke", params.accountId, baseUrl,
                                             auth.header, params.externalVerificationId,
                                             params.forceProvisioning)
       IN  IF baseUrl = Undefined
           THEN /\ outcome' = Raised(MkError("Error", MsgNoURL))
                /\ pc' = "done"
                /\ UNCHANGED <<posts, calls>>
           ELSE IF auth.thrown
           THEN /\ outcome' = Raised(auth.error)
                /\ pc' = "done"
                /\ UNCHANGED <<posts, calls>>
           ELSE IF auth.request # <<>>
           THEN /\ posts' = posts \o auth.request
                /\ pc' = "token_fetch"
                /\ UNCHANGED <<outcome, calls>>
           ELSE /\ posts' = posts \o call.request
                /\ pc' = "fetch"
                /\ calls' = calls + 1
                /\ UNCHANGED outcome
    /\ UNCHANGED <<other, halted, variant, params, context, failure, waits, resps>>

\* The token endpoint answers: getClientCredentialsToken ends, and with a token
\* invoke goes on to enableAccount.
Address_TokenResponse ==
    /\ handler = "invoke"
    /\ pc = "token_fetch"
    /\ \E resp \in TokenResponses, reread \in BOOLEAN :
        LET got  == TokenOutcome(resp, reread)
            call == enableAccountAtAddress("invoke", params.accountId,
                                           getBaseURL(params, context),
                                           BearerPrefix \o got.token,
                                           params.externalVerificationId,
                                           params.forceProvisioning)
        IN  IF got.thrown
            THEN /\ outcome' = Raised(got.error)
                 /\ pc' = "done"
                 /\ UNCHANGED <<posts, calls>>
            ELSE /\ posts' = posts \o call.request
                 /\ pc' = "fetch"
                 /\ calls' = calls + 1
                 /\ UNCHANGED outcome
    /\ UNCHANGED <<other, halted, variant, params, context, handler, failure, waits, resps>>

\* The token request itself fails.
Address_TokenFetchFails ==
    /\ handler = "invoke"
    /\ pc = "token_fetch"
    /\ outcome' = Raised(MkError("TypeError", MsgFetchFailed))
    /\ pc' = "done"
    /\ UNCHANGED <<other, halted, variant, params, context, handler, failure, posts, waits, calls,
                   resps>>

\* The response to invoke's enable POST arrives; invoke runs to its end (the
\* same code in both variants, but for the `address` key of the result).
Invoke_Response ==
    /\ handler = "invoke"
    /\ pc = "fetch"
    /\ \E resp \in Responses, reread \in BOOLEAN :
        /\ resps' = Append(resps, resp)
        /\ outcome' = InvokeOutcome(params.accountId, resp, reread,
                                    IF variant = "address"
                                    THEN getBaseURL(params, context) ELSE Undefined)
    /\ pc' = "done"
    /\ UNCHANGED <<other, halted, variant, params, context, handler, failure, posts, waits, calls>>

\* fetch rejects (DNS, TLS, timeout): the exception leaves invoke as it is.
Invoke_FetchFails ==
    /\ handler = "invoke"
    /\ pc = "fetch"
    /\ outcome' = Raised(MkError("TypeError", MsgFetchFailed))
    /\ pc' = "done"
    /\ UNCHANGED <<other, halted, variant, params, context, handler, failure, posts, waits, calls,
                   resps>>

\* Whether the harness may hand e to `error` now: the error invoke has just
\* raised, or a failure it kept from an earlier attempt.
HarnessPasses(e) ==
    \/ handler = "idle" /\ e \in Failures
    \/ handler = "invoke" /\ pc = "done" /\ outcome.kind = "raised" /\ e = outcome.error

\* error(params, context) of the domain-based variant from its entry to its first
\* await, or to its throw.  context.environment is read here for the first time.
Error_Call ==
    /\ variant = "domain"
    /\ \E e \in Failures \cup {outcome.error}, env \in Environments :
        /\ HarnessPasses(e)
        /\ failure' = e
        /\ context' = [context EXCEPT !.environment = env]
        /\ IF EntryBranch(e) = "throw"
           THEN /\ pc' = "done"
                /\ outcome' = Raised(UnrecoverableError(params.accountId, e))
           ELSE /\ pc' = EntryBranch(e)
                /\ outcome' = Pending
    /\ handler' = "error"
    /\ calls' = 0
    /\ resps' = <<>>
    /\ UNCHANGED <<other, halted, variant, params, posts, waits>>

\* Address_Error_Call that raises a new error around the one it was given, as the
\* domain-based variant does.
Address_Error_Call_Wraps ==
    /\ variant = "address"
    /\ \E e \in Failures \cup {outcome.error} :
        /\ HarnessPasses(e)
        /\ failure' = e
        /\ outcome' = Raised(UnrecoverableError(params.accountId, e))
    /\ handler' = "error"
    /\ pc' = "done"
    /\ calls' = 0
    /\ resps' = <<>>
    /\ UNCHANGED <<other, halted, variant, params, context, posts, waits>>

\* error(params, context) of the address-based variant: `throw error`.
Address_Error_Call ==
    /\ variant = "address"
    /\ \E e \in Failures \cup {outcome.error} :
        /\ HarnessPasses(e)
        /\ failure' = e
        /\ outcome' = Raised(e)
    /\ handler' = "error"
    /\ pc' = "done"
    /\ calls' = 0
    /\ resps' = <<>>
    /\ UNCHANGED <<other, halted, variant, params, context, posts, waits>>

\* Error_TimerFires that does not hand the optional parameters to enableAccount.
Error_TimerFires_DropsOptional ==
    /\ handler = "error"
    /\ pc \in {"rl_wait", "se_wait"}
    /\ waits' = waits \o WaitBeforeRetry(pc, context)
    /\ calls' = calls + 1
    /\ LET call == enableAccount("error", params.accountId, params.sailpointDomain,
                                 context.secrets.BEARER_AUTH_TOKEN,
                                 Undefined, "undefined")
       IN  IF call.thrown
           THEN /\ outcome' = Raised(call.error)
                /\ pc' = "done"
                /\ UNCHANGED posts
           ELSE /\ posts' = posts \o call.request
                /\ pc' = IF pc = "rl_wait" THEN "rl_fetch" ELSE "se_fetch"
                /\ UNCHANGED outcome
    /\ UNCHANGED <<other, halted, variant, params, context, handler, failure, resps>>

\* Error_TimerFires of a promise whose resolve is never called: the await of the
\* backoff never ends.
Error_TimerFires_NeverResolves ==
    /\ handler = "error"
    /\ pc \in {"rl_wait", "se_wait"}
    /\ UNCHANGED vars

\* The backoff timer fires: the wait is over and the branch calls enableAccount.
Error_TimerFires ==
    /\ handler = "error"
    /\ pc \in {"rl_wait", "se_wait"}
    /\ waits' = waits \o WaitBeforeRetry(pc, context)
    /\ calls' = calls + 1
    /\ LET call == enableAccount("error", params.accountId, params.sailpointDomain,
                                 context.secrets.BEARER_AUTH_TOKEN,
                                 params.externalVerificationId,
                                 params.forceProvisioning)
       IN  IF call.thrown
           THEN /\ outcome' = Raised(call.error)
                /\ pc' = "done"
                /\ UNCHANGED posts
           ELSE /\ posts' = posts \o call.request
                /\ pc' = IF pc = "rl_wait" THEN "rl_fetch" ELSE "se_fetch"
                /\ UNCHANGED outcome
    /\ UNCHANGED <<other, halted, variant, params, context, handler, failure, resps>>

\* The response to a retry arrives.
Error_Response ==
    /\ handler = "error"
    /\ pc \in {"rl_fetch", "se_fetch"}
    /\ \E resp \in Responses :
        /\ resps' = Append(resps, resp)
        /\ IF Ok(resp)
           THEN /\ outcome' = RetryOutcome(pc, params.accountId, resp)
                /\ pc' = "done"
           ELSE IF AfterFailedRetry(pc, failure) = "throw"
           THEN /\ outcome' = Raised(UnrecoverableError(params.accountId, failure))
                /\ pc' = "done"
           ELSE /\ pc' = AfterFailedRetry(pc, failure)
                /\ UNCHANGED outcome
    /\ UNCHANGED <<other, halted, variant, params, context, handler, failure, posts, waits, calls>>

\* fetch rejects during a retry: the exception leaves `error` as it is.
Error_FetchFails ==
    /\ handler = "error"
    /\ pc \in {"rl_fetch", "se_fetch"}
    /\ outcome' = Raised(MkError("TypeError", MsgFetchFailed))
    /\ pc' = "done"
    /\ UNCHANGED <<other, halted, variant, params, context, handler, failure, posts, waits, calls,
                   resps>>

\* HaltResult that passes accountId on as it is.
HaltResult_NoDefault(p) ==
    [accountId |-> p.accountId, reason |-> p.reason, cleanupCompleted |-> TRUE]

\* The object halt returns (script.mjs 395-408, the same in both variants).
\* haltedAt, the wall-clock time of the return, is left out.
HaltResult(p) ==
    [accountId        |-> OrElse(p.accountId, <<"unknown">>),
     reason           |-> p.reason,
     cleanupCompleted |-> TRUE]

\* Halt_Call that also ends the handler that is running.
Halt_Call_Aborts ==
    /\ \E reason \in HaltReasons :
        LET p == [reason |-> reason, accountId |-> params.accountId]
        IN  halted' = [called |-> TRUE, params |-> p, result |-> HaltResult(p)]
    /\ pc' = "done"
    /\ outcome' = IF outcome.kind = "none"
                  THEN Raised(MkError("Error", <<"halted">>)) ELSE outcome
    /\ UNCHANGED <<other, variant, params, context, handler, failure, posts, waits,
                   calls, resps>>

\* halt(params, context): the harness calls it with the job's params and a
\* reason, at any point of the job.  It logs and returns; it has no await.
Halt_Call ==
    /\ \E reason \in HaltReasons :
        LET p == [reason |-> reason, accountId |-> params.accountId]
        IN  halted' = [called |-> TRUE, params |-> p, result |-> HaltResult(p)]
    /\ UNCHANGED jobVars
    /\ UNCHANGED other

\* invoke of the domain-based variant alone, on a wider choice of inputs: account
\* ids with reserved and unreserved characters, the example of the tests, dot
\* segments, the empty string and a number; empty and non-empty verification ids.
InvokeAccountIds ==
    { Undefined, <<>>, NumberValue(<<"7">>),
      <<"a","/","b">>, <<"a","!","b">>, <<"(","*","'",")">>, <<"?","x","=","1","#">>,
      <<".">>, <<".",".">>,
      <<"a","c","c","/","1","2","3","&","t","e","s","t","=","1">> }

InvokeDomains == Domains \cup {<<>>, NumberValue(<<"7">>)}

InvokeTokens == Tokens \cup {<<>>}

InvokeVerificationIds == VerificationIds \cup {<<>>}

InvokeParams ==
    [accountId : InvokeAccountIds, sailpointDomain : InvokeDomains,
     externalVerificationId : InvokeVerificationIds, forceProvisioning : ForceValues]

InvokeContexts ==
    [secrets : [BEARER_AUTH_TOKEN : InvokeTokens], environment : {NoEnvironment}]

InvokeInit ==
    /\ variant = "domain"
    /\ params \in InvokeParams
    /\ context \in InvokeContexts
    /\ handler = "idle"
    /\ pc = "start"
    /\ failure = NoError
    /\ posts = <<>>
    /\ waits = <<>>
    /\ calls = 0
    /\ resps = <<>>
    /\ outcome = Pending
    /\ halted = NoHalt
    /\ other = NoOther

InvokeNext ==
    \/ Invoke_Call
    \/ Invoke_Response
    \/ Invoke_FetchFails

InvokeSpec == InvokeInit /\ [][InvokeNext]_vars

Next ==
    \/ Invoke_Call
    \/ Address_Invoke_Call
    \/ Address_TokenResponse
    \/ Address_TokenFetchFails
    \/ Invoke_Response
    \/ Invoke_FetchFails
    \/ Error_Call
    \/ Address_Error_Call
    \/ Error_TimerFires
    \/ Error_Response
    \/ Error_FetchFails

Spec == Init /\ [][Next]_vars

\* The job with calls of halt between the steps of its handlers, on the inputs
\* of Init with one choice of the optional parameters and of the user name and
\* authorization-code secrets.
HaltInit ==
    /\ Init
    /\ params.forceProvisioning = "true"
    /\ params.externalVerificationId = Undefined
    /\ variant = "address" =>
           /\ context.secrets.BASIC_USERNAME = Undefined
           /\ context.secrets.OAUTH2_AUTHORIZATION_CODE_ACCESS_TOKEN = Undefined

HaltNext ==
    \/ Next
    \/ Halt_Call

HaltSpec == HaltInit /\ [][HaltNext]_vars

-----------------------------------------------------------------------------
(* The recovery handler under a fair schedule.  setTimeout calls resolve    *)
(* once its delay is over, whatever the delay (a NaN delay counts as 0),    *)
(* and every fetch settles: it resolves with a response or it rejects.      *)

RecoveryInit ==
    /\ Init
    /\ variant = "domain"
    /\ params.accountId = <<"a","/","b">>
    /\ params.externalVerificationId = Undefined
    /\ params.forceProvisioning = "true"

RecoveryNext ==
    \/ Invoke_Call
    \/ Invoke_Response
    \/ Invoke_FetchFails
    \/ Error_Call
    \/ Error_TimerFires
    \/ Error_Response
    \/ Error_FetchFails

\* The timer fires and the pending fetch settles.
RecoveryFairness ==
    /\ WF_vars(Error_TimerFires)
    /\ WF_vars(Error_Response \/ Error_FetchFails)

RecoverySpec == RecoveryInit /\ [][RecoveryNext]_vars /\ RecoveryFairness

-----------------------------------------------------------------------------
(* Two invocations in one process.  JavaScript runs one invocation at a    *)
(* time and changes to another only where the running one awaits (fetch,   *)
(* the backoff timer); every state of the model is such a point.  All that *)
(* an invocation holds is in its parameters and local bindings: the module *)
(* script.mjs declares no variable outside its functions.                  *)

\* All that the running invocation holds.
JobRecord ==
    [variant |-> variant, params |-> params, context |-> context,
     handler |-> handler, pc |-> pc, failure |-> failure, posts |-> posts,
     waits |-> waits, calls |-> calls, resps |-> resps, outcome |-> outcome]

\* Switch with params kept in one place for both invocations.
Switch_SharesParams ==
    /\ other.present
    /\ other' = [present |-> TRUE, job |-> JobRecord]
    /\ variant' = other.job.variant
    /\ context' = other.job.context
    /\ handler' = other.job.handler
    /\ pc' = other.job.pc
    /\ failure' = other.job.failure
    /\ posts' = other.job.posts
    /\ waits' = other.job.waits
    /\ calls' = other.job.calls
    /\ resps' = other.job.resps
    /\ outcome' = other.job.outcome
    /\ UNCHANGED <<params, halted>>

\* The running invocation is suspended at its await and the other one goes on.
Switch ==
    /\ other.present
    /\ other' = [present |-> TRUE, job |-> JobRecord]
    /\ variant' = other.job.variant
    /\ params' = other.job.params
    /\ context' = other.job.context
    /\ handler' = other.job.handler
    /\ pc' = other.job.pc
    /\ failure' = other.job.failure
    /\ posts' = other.job.posts
    /\ waits' = other.job.waits
    /\ calls' = other.job.calls
    /\ resps' = other.job.resps
    /\ outcome' = other.job.outcome
    /\ UNCHANGED halted

\* An invocation of `error` suspended at its second backoff wait: it was given a
\* 503 failure whose message holds "rate limit", has waited, has sent one retry
\* and got 429 for it.
SuspendedRetry ==
    LET p   == [accountId |-> <<"a","/","b">>, sailpointDomain |-> <<"t",".","i","o">>,
                externalVerificationId |-> <<"x">>, forceProvisioning |-> "false"]
        ctx == [secrets |-> [BEARER_AUTH_TOKEN |-> BearerPrefix \o <<"t","k">>],
                environment |-> NoEnvironment]
    IN  [variant |-> "domain", params |-> p, context |-> ctx,
         handler |-> "error", pc |-> "se_wait",
         failure |-> [name |-> "Error",
                      message |-> FailedToEnable \o Colon \o TxtRateLimit,
                      statusCode |-> StatusCode(503)],
         posts |-> enableAccount("error", p.accountId, p.sailpointDomain,
                                 ctx.secrets.BEARER_AUTH_TOKEN,
                                 p.externalVerificationId, p.forceProvisioning).request,
         waits |-> WaitBeforeRetry("rl_wait", ctx),
         calls |-> 1,
         resps |-> <<Response(429, JsonBody(EmptyObj))>>,
         outcome |-> Pending]

\* One invocation about to start, with inputs of its own, next to the suspended
\* one.
PairInit ==
    /\ variant = "domain"
    /\ params \in DomainParams
    /\ params.accountId = <<"a","/","b">>
    /\ params.sailpointDomain = <<"t",".","i","o">>
    /\ params.externalVerificationId = Undefined
    /\ params.forceProvisioning = "true"
    /\ context \in DomainContexts
    /\ context.secrets.BEARER_AUTH_TOKEN = <<"t","k">>
    /\ handler = "idle"
    /\ pc = "start"
    /\ failure = NoError
    /\ posts = <<>>
    /\ waits = <<>>
    /\ calls = 0
    /\ resps = <<>>
    /\ outcome = Pending
    /\ halted = NoHalt
    /\ other = [present |-> TRUE, job |-> SuspendedRetry]

PairNext ==
    \/ Invoke_Call
    \/ Invoke_Response
    \/ Invoke_FetchFails
    \/ Error_Call
    \/ Error_TimerFires
    \/ Error_Response
    \/ Error_FetchFails
    \/ Switch

PairSpec == PairInit /\ [][PairNext]_vars

-----------------------------------------------------------------------------
(* What one invocation did.                                                *)

ByError(r) == r.by = "error"

ByInvoke(r) == r.by = "invoke"

IsEnable(r) == r.kind = "enable"

\* The enable POSTs the invocation of `error` sent.
ErrorPosts == SelectSeq(SelectSeq(posts, ByError), IsEnable)

\* The enable POSTs the invocation of invoke sent.
InvokePosts == SelectSeq(SelectSeq(posts, ByInvoke), IsEnable)

\* The backoff waits the invocation of `error` completed.
ErrorWaits == SelectSeq(waits, ByError)

InDomainError == variant = "domain" /\ handler = "error"

HasStatus(e, codes) == e.statusCode.has /\ e.statusCode.code \in codes

RetryableCodes == {429, 502, 503, 504}

NotOk(resp) == ~Ok(resp)

\* The responses of the running handler that were not ok.
FailedResps == SelectSeq(resps, NotOk)

-----------------------------------------------------------------------------
(* Claims.                                                                 *)

\* C1: one invocation of `error` (domain-based variant) issues at most one enable
\* POST, whatever the failure and whatever the retry's response.
C1_RetryDepthOne ==
    InDomainError => Len(ErrorPosts) <= 1

\* C2: for a failure whose statusCode is outside {429, 502, 503, 504}, whatever
\* its message, `error` raises at once: no backoff wait, no network call.
C2_FatalStatusRaisesAtOnce ==
    (InDomainError /\ failure.statusCode.has
        /\ failure.statusCode.code \notin RetryableCodes)
    => /\ pc = "done"
       /\ outcome.kind = "raised"
       /\ ErrorWaits = <<>>
       /\ ErrorPosts = <<>>

\* C3: one invocation of `error` performs exactly one backoff wait when the
\* failure's statusCode is 429, 502, 503 or 504, and never more than one.
C3_ExactlyOneWait ==
    InDomainError =>
        /\ Len(ErrorWaits) <= 1
        /\ (pc = "done" /\ HasStatus(failure, RetryableCodes)) => Len(ErrorWaits) = 1

\* C4: every enable POST `error` sends is preceded by a completed backoff wait of
\* the same invocation: the i-th POST comes after the i-th wait.
C4_PostAfterWait ==
    InDomainError => Len(ErrorPosts) <= Len(ErrorWaits)

C4_Witness ==
    /\ InDomainError
    /\ pc = "rl_fetch"
    /\ Len(ErrorPosts) = 1
    /\ Len(ErrorWaits) = 1

\* C5: the primary path never retries.  As claimed: an invoke whose inputs pass
\* validation sends exactly one enable POST and performs no wait, whatever the
\* response, and ends by returning a success result or by raising.
PassesValidation ==
    IF variant = "domain" THEN ValidationError(params, context) = <<>>
    ELSE getBaseURL(params, context) # Undefined /\ ~getAuthorizationHeader(context).thrown

InvokeEnded == handler = "invoke" /\ pc = "done"

EndsProperly ==
    /\ outcome.kind \in {"returned", "raised"}
    /\ outcome.kind = "returned" => outcome.result.enabled

C5_ExactlyOnePost ==
    (InvokeEnded /\ PassesValidation) =>
        /\ Len(InvokePosts) = 1
        /\ waits = <<>>
        /\ EndsProperly

\* C5 as amended: invoke sends at most one enable POST and performs no wait,
\* whatever the response; it sends exactly one once enableAccount reaches its
\* fetch call, which valid inputs ensure unless sailpointDomain forms no URL
\* (domain-based variant) or the client-credentials token request yields no
\* token, so that enableAccount is never called (address-based variant); and it
\* ends by returning a success result or by raising.
ReachesFetch ==
    /\ PassesValidation
    /\ IF variant = "domain" THEN BaseParses(params.sailpointDomain)
       ELSE AuthMethod(context) # "client_credentials" \/ calls = 1

C5_PrimaryNeverRetries ==
    handler = "invoke" =>
        /\ Len(InvokePosts) <= 1
        /\ calls <= 1
        /\ waits = <<>>
        /\ Len(resps) <= 1
        /\ pc = "done" => EndsProperly
        /\ (pc \in {"fetch", "done"} /\ ReachesFetch) => Len(InvokePosts) = 1
        /\ (pc = "done" /\ ~ReachesFetch) => Len(InvokePosts) = 0

C5_Witness ==
    /\ InvokeEnded
    /\ variant = "domain"
    /\ Len(resps) = 1
    /\ resps[1].status = 429
    /\ Len(InvokePosts) = 1
    /\ outcome.kind = "raised"

\* C6: when `error` returns a result, enabled is true and recoveryMethod is
\* "rate_limit_retry" for statusCode 429 and "service_retry" for 502, 503, 504,
\* for every failure message.
C6_RecoveryMethodByStatus ==
    (InDomainError /\ pc = "done" /\ outcome.kind = "returned") =>
        /\ outcome.result.enabled
        /\ HasStatus(failure, {429}) => outcome.result.recoveryMethod = "rate_limit_retry"
        /\ HasStatus(failure, {502, 503, 504})
               => outcome.result.recoveryMethod = "service_retry"

\* C7: when the failure is not retryable, or a retry's response is not
\* successful, `error` raises "Unrecoverable error enabling account {accountId}:
\* {message of the original failure}".
C7_UnrecoverableMessage ==
    (/\ InDomainError
     /\ pc = "done"
     /\ \/ failure.statusCode.has /\ failure.statusCode.code \notin RetryableCodes
        \/ FailedResps # <<>>)
    => /\ outcome.kind = "raised"
       /\ outcome.error.message =
              UnrecoverablePrefix \o ToStr(params.accountId) \o Colon \o failure.message

UpperLetters == <<"A","B","C","D","E","F","G","H","I","J","K","L","M","N","O","P","Q","R","S","T","U","V","W","X","Y","Z">>

LowerLetters == <<"a","b","c","d","e","f","g","h","i","j","k","l","m","n","o","p","q","r","s","t","u","v","w","x","y","z">>

\* String.prototype.toLowerCase on the letters A-Z.
RECURSIVE ToLowerCase(_)
ToLowerCase(s) ==
    IF s = <<>> THEN <<>>
    ELSE (IF \E i \in 1..26 : UpperLetters[i] = Head(s)
          THEN <<LowerLetters[CHOOSE i \in 1..26 : UpperLetters[i] = Head(s)]>>
          ELSE <<Head(s)>>)
         \o ToLowerCase(Tail(s))

\* The retry of one rate-limit recovery: one wait of the rate-limit class, one
\* call of enableAccount, at most one POST.
OneRateLimitRetry ==
    /\ Len(ErrorWaits) = 1
    /\ ErrorWaits[1].class = "rl_wait"
    /\ calls = 1
    /\ Len(ErrorPosts) <= 1

\* C8 as claimed: a failure without statusCode whose message contains "429", or
\* "rate limit" in any letter case, makes `error` wait the rate-limit backoff and
\* retry once.
C8_AnyLetterCase ==
    (/\ InDomainError
     /\ pc = "done"
     /\ ~failure.statusCode.has
     /\ \/ Includes(failure.message, S429)
        \/ Includes(ToLowerCase(failure.message), SRateLimit))
    => OneRateLimitRetry

\* C8 as amended: a failure without statusCode is retried as rate-limited when its
\* message contains "429" or the lower-case text "rate limit": `error` waits the
\* rate-limit backoff once and attempts the retry once (one enable POST when the
\* request can be built).  Any other failure without statusCode, "Rate Limit"
\* in capitals included, makes it raise with no wait and no POST.
C8_TextFallback ==
    (InDomainError /\ pc = "done" /\ ~failure.statusCode.has) =>
        IF Includes(failure.message, S429) \/ Includes(failure.message, SRateLimit)
        THEN /\ OneRateLimitRetry
             /\ (BaseParses(params.sailpointDomain)
                    /\ context.secrets.BEARER_AUTH_TOKEN # Undefined)
                => Len(ErrorPosts) = 1
        ELSE /\ ErrorWaits = <<>>
             /\ ErrorPosts = <<>>
             /\ outcome.kind = "raised"

C8_Witness ==
    /\ InDomainError
    /\ pc = "done"
    /\ failure.statusCode = NoStatusCode
    /\ failure.message = FailedToEnable \o Colon \o TxtRateLimit
    /\ Len(ErrorPosts) = 1
    /\ Len(ErrorWaits) = 1
    /\ outcome.kind = "returned"

AllDigits(s) == s # <<>> /\ \A i \in 1..Len(s) : IsDigit(s[i])

\* The delay a setting stands for: its integer value, or the default when unset.
ConfiguredMs(setting, default) ==
    IF Truthy(setting) THEN Num(DigitsValue(setting)) ELSE Num(default)

IsInteger(setting) == ~Truthy(setting) \/ AllDigits(setting)

\* C9: the backoff is keyed by class: a rate-limit retry waits RATE_LIMIT_BACKOFF_MS
\* (30000 when unset), a service-error retry waits SERVICE_ERROR_BACKOFF_MS (10000
\* when unset), never the other class's value; a 429 failure starts with the
\* rate-limit class, and a 502/503/504 failure whose message names no rate limit
\* with the service-error class.
C9_BackoffByClass ==
    InDomainError =>
        /\ \A i \in 1..Len(ErrorWaits) :
            LET w  == ErrorWaits[i]
                rl == context.environment.RATE_LIMIT_BACKOFF_MS
                se == context.environment.SERVICE_ERROR_BACKOFF_MS
            IN  /\ (w.class = "rl_wait" /\ IsInteger(rl)) => w.delay = ConfiguredMs(rl, 30000)
                /\ (w.class = "se_wait" /\ IsInteger(se)) => w.delay = ConfiguredMs(se, 10000)
        /\ (ErrorWaits # <<>> /\ HasStatus(failure, {429}))
               => ErrorWaits[1].class = "rl_wait"
        /\ (ErrorWaits # <<>> /\ HasStatus(failure, {502, 503, 504})
               /\ ~Includes(failure.message, S429)
               /\ ~Includes(failure.message, SRateLimit))
               => ErrorWaits[1].class = "se_wait"

C9_Witness ==
    /\ InDomainError
    /\ context.environment.RATE_LIMIT_BACKOFF_MS = <<"1","0","0","0">>
    /\ context.environment.SERVICE_ERROR_BACKOFF_MS = Undefined
    /\ failure.statusCode = StatusCode(503)
    /\ Len(ErrorWaits) = 1
    /\ ErrorWaits[1] = [by |-> "error", class |-> "se_wait", delay |-> Num(10000)]

DomainEndedRaised ==
    variant = "domain" /\ pc = "done" /\ outcome.kind = "raised"

\* C10 as claimed: every error that leaves invoke or `error` (domain-based
\* variant) has a message containing "Failed to enable account" or
\* "Unrecoverable error enabling account {accountId}".
C10_AlwaysTagged ==
    DomainEndedRaised =>
        \/ Includes(outcome.error.message, FailedToEnable)
        \/ Includes(outcome.error.message, UnrecoverablePrefix \o ToStr(params.accountId))

ValidationMessages == {MsgInvalidAccountId, MsgInvalidDomain, MsgMissingToken}

RuntimeMessages ==
    {MsgInvalidURL, MsgStartsWithOfUndefined, MsgFetchFailed, MsgNotJSON, MsgBodyUsed}

\* C10 as amended: the errors the handlers raise by their own final throw are
\* tagged: the error invoke raises after a failing response whose body it could
\* read (the one that carries statusCode) has a message beginning "Failed to
\* enable account: ", and the error `error` raises itself has the message
\* "Unrecoverable error enabling account {accountId}: {failure message}".
\* Validation failures carry one of the three validation messages, and
\* exceptions of the runtime (invalid URL, transport failure, unparseable
\* success body, unreadable error body) leave with the runtime's message.
C10_TaggedAtOwnThrow ==
    DomainEndedRaised =>
        LET e == outcome.error
        IN  IF handler = "invoke"
            THEN /\ e.statusCode.has =>
                        /\ StartsWith(e.message, FailedToEnable \o Colon)
                        /\ Len(resps) = 1
                        /\ e.statusCode.code = resps[1].status
                 /\ (~e.statusCode.has /\ e.name = "Error") =>
                        /\ e.message \in ValidationMessages
                        /\ posts = <<>>
                 /\ e.name # "Error" => e.message \in RuntimeMessages
                 /\ (resps # <<>> /\ ~Ok(resps[1]) /\ resps[1].body.json)
                        => e.statusCode.has
            ELSE /\ e.name = "Error" =>
                        e.message = UnrecoverablePrefix \o ToStr(params.accountId)
                                    \o Colon \o failure.message
                 /\ e.name # "Error" => e.message \in RuntimeMessages

C10_Witness ==
    /\ DomainEndedRaised
    /\ handler = "invoke"
    /\ outcome.error.statusCode = StatusCode(404)
    /\ outcome.error.message =
           FailedToEnable \o Colon \o TxtNotFound \o <<" - ">> \o TxtTrack

-----------------------------------------------------------------------------
(* Validation (C11, C12).                                                  *)

\* A required parameter that is missing, empty or not a string.
NotAString(v) == v = Undefined \/ v = <<>> \/ IsNumber(v)

\* A secret that is missing or empty.
NoSecret(v) == v = Undefined \/ v = <<>>

RaisedMessage(m) == outcome.kind = "raised" /\ outcome.error = MkError("Error", m)

\* C11: in the domain-based variant invoke checks accountId, then sailpointDomain,
\* then BEARER_AUTH_TOKEN; the first check that fails gives the raised message,
\* and then invoke has ended without sending any request.
C11_ValidationOrder ==
    (variant = "domain" /\ handler = "invoke") =>
        LET badId     == NotAString(params.accountId)
            badDomain == NotAString(params.sailpointDomain)
            badToken  == NoSecret(context.secrets.BEARER_AUTH_TOKEN)
        IN  /\ badId => RaisedMessage(MsgInvalidAccountId)
            /\ (~badId /\ badDomain) => RaisedMessage(MsgInvalidDomain)
            /\ (~badId /\ ~badDomain /\ badToken) => RaisedMessage(MsgMissingToken)
            /\ (badId \/ badDomain \/ badToken) => (pc = "done" /\ posts = <<>>)
            /\ (~badId /\ ~badDomain /\ ~badToken) =>
                   ~(outcome.kind = "raised" /\ outcome.error.message \in ValidationMessages)

\* All three checks would fail, and the message is that of accountId.
C11_Witness ==
    /\ variant = "domain" /\ handler = "invoke" /\ pc = "done"
    /\ IsNumber(params.accountId)
    /\ params.sailpointDomain = <<>>
    /\ context.secrets.BEARER_AUTH_TOKEN = Undefined
    /\ RaisedMessage(MsgInvalidAccountId)
    /\ posts = <<>>

\* C12: in the address-based variant, invoke called with accountId missing or not
\* a string sends no enable POST.
C12_AddressValidatesAccountId ==
    (variant = "address" /\ NotAString(params.accountId)) => InvokePosts = <<>>

-----------------------------------------------------------------------------
(* The request invoke sends (C13, C14, C15).                               *)

\* invoke of the domain-based variant has called fetch.
DomainInvokeSent == variant = "domain" /\ InvokePosts # <<>>

\* The URI reserved characters (RFC 3986: gen-delims without "[" and "]", and
\* sub-delims).
ReservedChars ==
    {"/", "&", "=", "?", "#", ":", "@", "+", ",", ";", "$", "!", "*", "'", "(", ")"}

\* The reserved characters encodeURIComponent leaves as they are.
ReservedKept == {"!", "*", "'", "(", ")"}

\* The percent code of a reserved character, of the space and of "%".
ReservedCode(c) ==
    CASE c = "/" -> <<"%","2","F">> [] c = "&" -> <<"%","2","6">>
      [] c = "=" -> <<"%","3","D">> [] c = "?" -> <<"%","3","F">>
      [] c = "#" -> <<"%","2","3">> [] c = ":" -> <<"%","3","A">>
      [] c = "@" -> <<"%","4","0">> [] c = "+" -> <<"%","2","B">>
      [] c = "," -> <<"%","2","C">> [] c = ";" -> <<"%","3","B">>
      [] c = "$" -> <<"%","2","4">> [] c = "!" -> <<"%","2","1">>
      [] c = "*" -> <<"%","2","A">> [] c = "'" -> <<"%","2","7">>
      [] c = "(" -> <<"%","2","8">> [] c = ")" -> <<"%","2","9">>
      [] c = " " -> <<"%","2","0">> [] c = "%" -> <<"%","2","5">>

\* The encoding in which every reserved character is encoded.
RECURSIVE EncodeAllReserved(_)
EncodeAllReserved(s) ==
    IF s = <<>> THEN <<>>
    ELSE (IF Head(s) \in ReservedChars \cup {" ", "%"}
          THEN ReservedCode(Head(s)) ELSE <<Head(s)>>)
         \o EncodeAllReserved(Tail(s))

\* decodeURIComponent: every "%XY" is read back as its character.
RECURSIVE PercentDecode(_)
PercentDecode(s) ==
    IF s = <<>> THEN <<>>
    ELSE IF Head(s) = "%" /\ Len(s) >= 3
    THEN <<CHOOSE c \in ReservedChars \cup {" ", "%"} : ReservedCode(c) = SubSeq(s, 1, 3)>>
         \o PercentDecode(SubSeq(s, 4, Len(s)))
    ELSE <<Head(s)>> \o PercentDecode(Tail(s))

HasChar(s, cs) == \E i \in 1..Len(s) : s[i] \in cs

DotSegments == {<<".">>, <<".", ".">>}

ExampleId == <<"a","c","c","/","1","2","3","&","t","e","s","t","=","1">>

ExampleSegment ==
    <<"a","c","c","%","2","F","1","2","3","%","2","6","t","e","s","t","%","3","D","1">>

\* C13 as stated: the account segment of the requested URL is accountId with
\* every reserved character percent-encoded.
C13_AllReservedEncoded ==
    DomainInvokeSent =>
        LET path == InvokePosts[1].url.path
        IN  /\ Len(path) = 4
            /\ path[3] = EncodeAllReserved(params.accountId)

\* C13 as amended: the account segment is encodeURIComponent(accountId); the
\* reserved characters / & = ? # : @ + , ; $ never occur in it, the reserved
\* characters ! * ' ( ) are sent as they are, decoding the segment gives
\* accountId back, and "acc/123&test=1" is sent as "acc%2F123%26test%3D1".  The
\* segment of accountId "." or ".." is a dot segment, which the URL drops.
C13_AccountSegment ==
    DomainInvokeSent =>
        LET id   == params.accountId
            path == InvokePosts[1].url.path
        IN  IF id \in DotSegments
            THEN Len(path) < 4 /\ \A i \in 1..Len(path) : path[i] # id
            ELSE /\ Len(path) = 4
                 /\ ~HasChar(path[3], (ReservedChars \ ReservedKept) \cup {" "})
                 /\ \A c \in ReservedKept :
                        HasChar(id, {c}) => HasChar(path[3], {c})
                 /\ PercentDecode(path[3]) = id
                 /\ id = ExampleId => path[3] = ExampleSegment

\* The example of the tests was sent, and an id with ! was sent as it is.
C13_Witness ==
    /\ DomainInvokeSent
    /\ params.accountId = ExampleId
    /\ InvokePosts[1].url.path[3] = ExampleSegment

\* C14: for every non-empty string accountId the requested URL has the host
\* sailpointDomain and the path v3 / accounts / {encoded accountId} / enable, and
\* accountId brings in no query string or fragment.
C14_EndpointFixed ==
    DomainInvokeSent =>
        LET url == InvokePosts[1].url
        IN  /\ url.host = params.sailpointDomain
            /\ Len(url.path) = 4
            /\ url.path[1] = <<"v3">>
            /\ url.path[2] = <<"accounts">>
            /\ PercentDecode(url.path[3]) = params.accountId
            /\ ~HasChar(url.path[3], {"/", "?", "#"})
            /\ url.path[4] = <<"enable">>

\* C15: forceProvisioning is in the body iff the input is neither undefined nor
\* null, with the input's value (false stays false); externalVerificationId is
\* in the body iff the input is non-empty; with both absent the body is empty.
C15_ConditionalBody ==
    DomainInvokeSent =>
        LET body  == InvokePosts[1].body
            force == params.forceProvisioning
            extId == params.externalVerificationId
            hasForce == body.forceProvisioning # "undefined"
            hasExtId == body.externalVerificationId # Undefined
        IN  /\ hasForce <=> force \notin {"undefined", "null"}
            /\ hasForce => body.forceProvisioning = force
            /\ hasExtId <=> (extId # Undefined /\ extId # <<>>)
            /\ hasExtId => body.externalVerificationId = extId
            /\ (force \in {"undefined", "null"} /\ extId \in {Undefined, <<>>}) =>
                   body = [externalVerificationId |-> Undefined,
                           forceProvisioning |-> "undefined"]

\* false was sent as false, next to an empty externalVerificationId left out.
C15_Witness ==
    /\ DomainInvokeSent
    /\ params.forceProvisioning = "false"
    /\ params.externalVerificationId = <<>>
    /\ InvokePosts[1].body.forceProvisioning = "false"
    /\ InvokePosts[1].body.externalVerificationId = Undefined

-----------------------------------------------------------------------------
(* What invoke makes of the response (C16 to C20).                         *)

\* invoke has ended after it received a response.
InvokeAnswered == handler = "invoke" /\ pc = "done" /\ resps # <<>>

\* A field the body supplies: it is there and it is not empty.
Supplied(v) == v # Undefined /\ v # <<>>

C17_SuccessAlwaysReturns ==
    (InvokeAnswered /\ Ok(resps[1])) =>
        (outcome.kind = "returned" /\ outcome.result.enabled)

\* The message the claims give for a JSON error body.
PriorityMessage(status, body) ==
    IF Supplied(body.detailCode)
    THEN <<"Failed to enable account", ": ">> \o body.detailCode \o <<" - ">>
         \o (IF Supplied(body.trackingId) THEN body.trackingId ELSE <<>>)
    ELSE IF Supplied(body.message)
    THEN <<"Failed to enable account", ": ">> \o body.message
    ELSE <<"Failed to enable account", ": ", "HTTP ">> \o NumToStr(status)

\* C18: for a non-successful response with a JSON body the raised message is
\* "Failed to enable account: {detailCode} - {trackingId or empty}" when detailCode
\* is there (also next to a message), else "Failed to enable account: {message}",
\* else "Failed to enable account: HTTP {statusCode}".
C18_MessagePriority ==
    (InvokeAnswered /\ ~Ok(resps[1]) /\ resps[1].body.json) =>
        /\ outcome.kind = "raised"
        /\ outcome.error.message = PriorityMessage(resps[1].status, resps[1].body.obj)
        /\ resps[1] = Response(429, JsonBody(EmptyObj)) =>
               outcome.error.message =
                   <<"Failed to enable account", ": ", "HTTP ", "4", "2", "9">>

\* The body held a detailCode and a message, and the detailCode was reported.
C18_Witness ==
    /\ InvokeAnswered
    /\ resps[1].status = 400
    /\ Supplied(resps[1].body.obj.detailCode)
    /\ Supplied(resps[1].body.obj.message)
    /\ outcome.kind = "raised"
    /\ outcome.error.message = <<"Failed to enable account", ": ", "N", "F", " - ">>

\* C19: for a non-successful response whose body is no JSON the raised message is
\* "Failed to enable account: {text}", and "Failed to enable account: HTTP
\* {statusCode}" when the text is empty.
C19_TextBodyMessage ==
    (InvokeAnswered /\ ~Ok(resps[1]) /\ ~resps[1].body.json) =>
        /\ outcome.kind = "raised"
        /\ outcome.error.message =
               (IF resps[1].body.text # <<>>
                THEN <<"Failed to enable account", ": ">> \o resps[1].body.text
                ELSE <<"Failed to enable account", ": ", "HTTP ">>
                     \o NumToStr(resps[1].status))

\* C20: every error invoke raises after a non-successful response carries that
\* response's status as statusCode.
C20_StatusCodeCarried ==
    (InvokeAnswered /\ ~Ok(resps[1])) =>
        /\ outcome.kind = "raised"
        /\ outcome.error.statusCode = StatusCode(resps[1].status)

-----------------------------------------------------------------------------
(* halt (C21, C22).                                                        *)

\* C21: halt returns cleanupCompleted = true for every reason, echoes the reason
\* it was given, and returns the supplied accountId, or "unknown" when none is
\* supplied.
C21_HaltResult ==
    halted.called =>
        /\ halted.result.cleanupCompleted
        /\ halted.result.reason = halted.params.reason
        /\ halted.result.accountId =
               (IF Supplied(halted.params.accountId) THEN halted.params.accountId
                ELSE <<"unknown">>)

\* halt was called with a reason and without an accountId.
C21_Witness ==
    /\ halted.called
    /\ halted.params.accountId = Undefined
    /\ halted.params.reason = <<"timeout">>
    /\ halted.result =
           [accountId |-> <<"unknown">>, reason |-> <<"timeout">>,
            cleanupCompleted |-> TRUE]

\* C22: a call of halt between the steps of invoke or error sends no request,
\* completes no wait and changes nothing of the job: every step of the job with
\* halt interleaved is a step of the job without it, or leaves the job as it is.
C22_HaltLeavesJobAlone ==
    [][ Next \/ UNCHANGED jobVars ]_vars

\* halt was called while a retry of `error` was in flight or before it.
C22_Witness ==
    /\ halted.called
    /\ handler = "error"
    /\ pc = "rl_fetch"
    /\ ErrorPosts # <<>>

-----------------------------------------------------------------------------
(* The address-based variant: error and the Authorization header (C23 to   *)
(* C26).                                                                   *)

\* C23: in the address-based variant `error` ends at once by raising the error
\* object it was given, whatever its statusCode, and sends no request and
\* completes no wait.
C23_AddressErrorRethrows ==
    (variant = "address" /\ handler = "error") =>
        /\ pc = "done"
        /\ outcome.kind = "raised"
        /\ outcome.error = failure
        /\ SelectSeq(posts, ByError) = <<>>
        /\ waits = <<>>
        /\ calls = 0

\* A failure with statusCode 429 was given to `error` and raised as it is.
C23_Witness ==
    /\ variant = "address" /\ handler = "error"
    /\ failure.statusCode = StatusCode(429)
    /\ outcome = Raised(failure)

\* invoke of the address-based variant has called fetch for the enable POST.
AddressInvokeSent == variant = "address" /\ InvokePosts # <<>>

\* The one access token the token endpoint of the model hands out.
GrantedToken == <<"a","t">>

\* C24: in the address-based variant, for each of the four authentication
\* methods, the Authorization header of the enable POST is the header value that
\* getAuthorizationHeader resolved ("Bearer ..." or "Basic ...").
C24_HeaderAsResolved ==
    AddressInvokeSent =>
        InvokePosts[1].authorization =
            (IF AuthMethod(context) = "client_credentials"
             THEN <<"B","e","a","r","e","r"," ">> \o GrantedToken
             ELSE StaticAuthHeader(context))

\* s begins with the seven characters "Bearer ".
HasBearerPrefix(s) ==
    Len(s) >= 7 /\ SubSeq(s, 1, 7) = <<"B","e","a","r","e","r"," ">>

\* C25: the Bearer normalization of the token is idempotent, and the
\* Authorization value of the enable POST carries the prefix "Bearer " once,
\* whether or not the token carried it already.
C25_BearerOnce ==
    DomainInvokeSent =>
        LET token  == context.secrets.BEARER_AUTH_TOKEN
            header == InvokePosts[1].authorization
            rest   == SubSeq(header, 8, Len(header))
        IN  /\ AuthHeader(header) = header
            /\ AuthHeader(AuthHeader(token)) = AuthHeader(token)
            /\ HasBearerPrefix(header)
            /\ ~HasBearerPrefix(rest)
            /\ rest = (IF HasBearerPrefix(token)
                       THEN SubSeq(token, 8, Len(token)) ELSE token)

\* A token that carried the prefix already was sent with one prefix.
C25_Witness ==
    /\ DomainInvokeSent
    /\ context.secrets.BEARER_AUTH_TOKEN = <<"B","e","a","r","e","r"," ","t","k">>
    /\ InvokePosts[1].authorization = <<"B","e","a","r","e","r"," ","t","k">>

\* invoke of the address-based variant has passed getBaseURL.
AddressInvokeResolves ==
    /\ variant = "address" /\ handler = "invoke"
    /\ (Supplied(params.address) \/ Supplied(context.environment.ADDRESS))

\* The first request of the job is an enable POST whose header holds `text`.
FirstIsEnableWith(text) ==
    /\ posts # <<>>
    /\ posts[1].kind = "enable"
    /\ Includes(posts[1].authorization, text)

\* C26: credentials are resolved first-match-wins in the order bearer token,
\* basic auth (username and password both there), authorization-code access
\* token, client credentials; with none configured, resolution raises an error.
C26_FirstMatchWins ==
    AddressInvokeResolves =>
        LET secrets == context.secrets
            bearer  == Supplied(secrets.BEARER_AUTH_TOKEN)
            basic   == Supplied(secrets.BASIC_USERNAME) /\ Supplied(secrets.BASIC_PASSWORD)
            code    == Supplied(secrets.OAUTH2_AUTHORIZATION_CODE_ACCESS_TOKEN)
            client  == Supplied(secrets.OAUTH2_CLIENT_CREDENTIALS_CLIENT_SECRET)
        IN  /\ bearer => FirstIsEnableWith(secrets.BEARER_AUTH_TOKEN)
            /\ (~bearer /\ basic) =>
                   FirstIsEnableWith(btoa(secrets.BASIC_USERNAME \o <<":">>
                                          \o secrets.BASIC_PASSWORD))
            /\ (~bearer /\ ~basic /\ code) =>
                   FirstIsEnableWith(secrets.OAUTH2_AUTHORIZATION_CODE_ACCESS_TOKEN)
            /\ (~bearer /\ ~basic /\ ~code /\ client) =>
                   \/ posts # <<>> /\ posts[1].kind = "token"
                   \/ posts = <<>> /\ outcome = Raised(MkError("Error", MsgCCEnv))
            /\ (~bearer /\ ~basic /\ ~code /\ ~client) =>
                   posts = <<>> /\ outcome = Raised(MkError("Error", MsgNoAuth))

\* With no bearer token, basic auth was used although the later two methods were
\* configured as well.
C26_Witness ==
    /\ AddressInvokeResolves
    /\ ~Supplied(context.secrets.BEARER_AUTH_TOKEN)
    /\ Supplied(context.secrets.BASIC_USERNAME)
    /\ Supplied(context.secrets.BASIC_PASSWORD)
    /\ Supplied(context.secrets.OAUTH2_AUTHORIZATION_CODE_ACCESS_TOKEN)
    /\ Supplied(context.secrets.OAUTH2_CLIENT_CREDENTIALS_CLIENT_SECRET)
    /\ FirstIsEnableWith(<<"base64(", "u", ":", "p", ")">>)

-----------------------------------------------------------------------------
(* The retry of `error` next to invoke (C28, C29, C30).                    *)

\* `error` of the domain-based variant has returned a result.
RetryReturned ==
    /\ InDomainError /\ pc = "done"
    /\ outcome.kind = "returned"
    /\ resps # <<>>

\* The result invoke returns for the response `resp`.
InvokeResultFor(resp) ==
    InvokeOutcome(params.accountId, resp, TRUE, Undefined).result

\* A result without its recoveryMethod.
LessRecoveryMethod(r) == [r EXCEPT !.recoveryMethod = "none"]

\* C28 as stated: the result `error` returns after a successful retry, less its
\* recoveryMethod, is the result invoke returns for the same inputs and the same
\* response body, also when the body supplies no message.
C28_SameResultAsInvoke ==
    RetryReturned =>
        LessRecoveryMethod(outcome.result) = InvokeResultFor(resps[Len(resps)])

\* C28 as amended: accountId, enabled and taskId are those of invoke's result, and
\* so is message when the body supplies one; when it supplies none, message is
\* "Account enable operation initiated after retry" out of the rate-limit branch
\* and "Account enable operation initiated after service recovery" out of the
\* service-error branch.
C28_SameResultButDefault ==
    RetryReturned =>
        LET body == resps[Len(resps)].body.obj
            like == InvokeResultFor(resps[Len(resps)])
        IN  /\ outcome.result.accountId = like.accountId
            /\ outcome.result.enabled = like.enabled
            /\ outcome.result.taskId = like.taskId
            /\ Supplied(body.message) => outcome.result.message = like.message
            /\ (~Supplied(body.message)
                    /\ outcome.result.recoveryMethod = "rate_limit_retry") =>
                   outcome.result.message =
                       <<"Account enable operation initiated after retry">>
            /\ (~Supplied(body.message)
                    /\ outcome.result.recoveryMethod = "service_retry") =>
                   outcome.result.message =
                       <<"Account enable operation initiated after service recovery">>

\* A retry out of the service-error branch succeeded with a body without message.
C28_Witness ==
    /\ RetryReturned
    /\ ~Supplied(resps[Len(resps)].body.obj.message)
    /\ outcome.result.recoveryMethod = "service_retry"
    /\ outcome.result.taskId = <<"t","2">>

\* A request without the mark of the handler that sent it.
LessSender(r) == [r EXCEPT !.by = "any"]

\* C29: in the domain-based variant every retry request of `error` is the request
\* invoke sent for the same inputs: URL, method, the three headers and the body.
C29_SameRequest ==
    variant = "domain" =>
        \A i \in 1..Len(posts) : \A j \in 1..Len(posts) :
            LessSender(posts[i]) = LessSender(posts[j])

\* invoke sent its request with both optional parameters, and `error` its retry.
C29_Witness ==
    /\ variant = "domain"
    /\ InvokePosts # <<>>
    /\ ErrorPosts # <<>>
    /\ params.externalVerificationId = <<"x">>
    /\ params.forceProvisioning = "false"

\* C30: when invoke raised one of its validation errors and the harness passes it
\* to `error`, the handler raises without a wait and without a POST, and the job
\* has sent no request at all.
C30_InvalidInputNeverRetried ==
    (InDomainError /\ failure.message \in ValidationMessages) =>
        /\ pc = "done"
        /\ outcome.kind = "raised"
        /\ posts = <<>>
        /\ waits = <<>>
        /\ calls = 0

\* The error of a missing token went through `error`.
C30_Witness ==
    /\ InDomainError
    /\ failure = MkError("Error", MsgMissingToken)
    /\ outcome.kind = "raised"
    /\ posts = <<>>

-----------------------------------------------------------------------------
(* Two invocations side by side (C27).                                     *)

\* The request enableAccount builds from the inputs of the invocation j.
OwnRequest(j) ==
    enableAccount("any", j.params.accountId, j.params.sailpointDomain,
                  j.context.secrets.BEARER_AUTH_TOKEN,
                  j.params.externalVerificationId, j.params.forceProvisioning).request

\* Every request j sent is the one built from j's own params and secrets, and
\* every wait of j has the delay of j's own environment.
RequestsFromOwnInputs(j) ==
    /\ \A i \in 1..Len(j.posts) : <<LessSender(j.posts[i])>> = OwnRequest(j)
    /\ \A i \in 1..Len(j.waits) :
           j.waits[i].delay = (IF j.waits[i].class = "rl_wait"
                               THEN rateLimitBackoffMs(j.context)
                               ELSE serviceErrorBackoffMs(j.context))

\* The outcome of j comes from j's own accountId, failure and last response.
OutcomeFromOwnInputs(j) ==
    /\ j.outcome.kind = "returned" =>
           /\ j.resps # <<>>
           /\ j.outcome.result.accountId = j.params.accountId
           /\ j.outcome.result.taskId =
                  (IF Supplied(j.resps[Len(j.resps)].body.obj.id)
                   THEN j.resps[Len(j.resps)].body.obj.id
                   ELSE j.resps[Len(j.resps)].body.obj.taskId)
    /\ (j.outcome.kind = "raised" /\ j.handler = "error"
            /\ j.outcome.error.name = "Error") =>
           j.outcome.error.message =
               <<"Unrecoverable error enabling account ">> \o ToStr(j.params.accountId)
               \o <<": ">> \o j.failure.message
    /\ (j.outcome.kind = "raised" /\ j.handler = "invoke"
            /\ j.outcome.error.statusCode.has) =>
           /\ j.resps # <<>>
           /\ j.outcome.error.statusCode.code = j.resps[1].status

\* The invocations there are: the running one and the suspended one.
Invocations == {JobRecord} \cup (IF other.present THEN {other.job} ELSE {})

\* C27: with two invocations interleaved at their awaits (also during a backoff
\* wait), the requests, waits and outcome of each are those its own params,
\* context, failure and responses give, as when it runs alone.
C27_OwnInputsOnly ==
    \A j \in Invocations : RequestsFromOwnInputs(j) /\ OutcomeFromOwnInputs(j)

\* Both invocations have ended: the one that was suspended during its backoff
\* wait sent its second retry, the other one sent a request of its own between.
C27_Witness ==
    /\ other.present
    /\ handler = "error" /\ pc = "done" /\ Len(posts) = 2
    /\ params.forceProvisioning = "false"
    /\ other.job.pc = "done"
    /\ other.job.posts # <<>>
    /\ other.job.params.forceProvisioning = "true"

\* ---------------------------------------------------------------------------
\* C31: a retryable failure without a token
\* ---------------------------------------------------------------------------

\* `error` was entered with a failure it retries, and the context has no token.
RetryWithoutToken ==
    /\ InDomainError
    /\ EntryBranch(failure) # "throw"
    /\ context.secrets.BEARER_AUTH_TOKEN = Undefined

\* C31: in the domain-based variant, `error` entered with a retryable failure and
\* without BEARER_AUTH_TOKEN fails fast: it performs no backoff wait and sends
\* no enable POST, and it ends by raising.
C31_FailsFast ==
    RetryWithoutToken =>
        /\ ErrorWaits = <<>>
        /\ ErrorPosts = <<>>
        /\ pc = "done" => outcome.kind = "raised"

\* ---------------------------------------------------------------------------
\* C32: success is reported only when observed
\* ---------------------------------------------------------------------------

\* The enable POSTs the running handler sent in this invocation.
OwnPosts == IF handler = "error" THEN ErrorPosts ELSE InvokePosts

\* The last response the running handler received has a status of 200 to 299.
LastResponseSuccessful ==
    /\ resps # <<>>
    /\ resps[Len(resps)].status \in 200..299

HandlerEnded == handler \in {"invoke", "error"} /\ pc = "done"

\* C32: invoke or error returns a result with enabled = true only if, in that
\* invocation, the last enable POST it sent received a successful response;
\* every other ended execution has raised.
C32_SuccessOnlyObserved ==
    /\ outcome.result.enabled => outcome.kind = "returned"
    /\ outcome.kind = "returned" =>
        /\ HandlerEnded
        /\ outcome.result.enabled
        /\ OwnPosts # <<>>
        /\ Len(resps) = Len(OwnPosts)
        /\ LastResponseSuccessful
    /\ HandlerEnded => outcome.kind \in {"returned", "raised"}
    /\ (HandlerEnded /\ ~LastResponseSuccessful) => outcome.kind = "raised"

\* `error` returned success on its second retry, the first having failed.
C32_Witness ==
    /\ InDomainError
    /\ outcome.kind = "returned"
    /\ outcome.result.enabled
    /\ Len(ErrorPosts) = 2
    /\ ~Ok(resps[1])
    /\ Ok(resps[2])

\* ---------------------------------------------------------------------------
\* C33: the base URL of the address-based variant
\* ---------------------------------------------------------------------------

InAddressInvoke == variant = "address" /\ handler = "invoke"

\* The address the invocation is given: params.address when supplied, else the
\* environment's ADDRESS.
GivenAddress ==
    IF Supplied(params.address) THEN params.address ELSE context.environment.ADDRESS

\* The given address with one trailing "/" removed.
GivenBase ==
    IF GivenAddress[Len(GivenAddress)] = "/"
    THEN [i \in 1..(Len(GivenAddress) - 1) |-> GivenAddress[i]]
    ELSE GivenAddress

\* C33: in the address-based variant the base URL is params.address when
\* supplied, else environment ADDRESS, less one trailing "/"; with neither set
\* invoke raises before any credential request or enable POST; on success the
\* returned address is the base URL the requested URL was built on.
C33_BaseURL ==
    InAddressInvoke =>
        IF Supplied(GivenAddress)
        THEN /\ \A i \in DOMAIN InvokePosts :
                    StartsWith(InvokePosts[i].url, GivenBase \o <<"/v3/accounts/">>)
             /\ outcome.kind = "returned" => outcome.result.address = GivenBase
             /\ ~RaisedMessage(MsgNoURL)
        ELSE /\ pc = "done"
             /\ RaisedMessage(MsgNoURL)
             /\ posts = <<>>

\* invoke returned with params.address "h/" preferred to the environment's "g":
\* the request went to "h/v3/accounts/..." and the result's address is "h".
C33_Witness ==
    /\ InAddressInvoke
    /\ params.address = <<"h","/">>
    /\ context.environment.ADDRESS = <<"g">>
    /\ outcome.kind = "returned"
    /\ outcome.result.address = <<"h">>
    /\ StartsWith(posts[Len(posts)].url, <<"h","/v3/accounts/">>)

\* invoke raised for want of an address, though credentials were configured.
C33_WitnessNoAddress ==
    /\ InAddressInvoke
    /\ ~Supplied(GivenAddress)
    /\ context.secrets.BEARER_AUTH_TOKEN # Undefined
    /\ RaisedMessage(MsgNoURL)

\* ---------------------------------------------------------------------------
\* C34: credentials before the enable POST
\* ---------------------------------------------------------------------------

\* None of the three credentials that need no network call is configured.
NoStaticCredential ==
    /\ ~Supplied(context.secrets.BEARER_AUTH_TOKEN)
    /\ ~(Supplied(context.secrets.BASIC_USERNAME) /\ Supplied(context.secrets.BASIC_PASSWORD))
    /\ ~Supplied(context.secrets.OAUTH2_AUTHORIZATION_CODE_ACCESS_TOKEN)

\* No authentication at all is configured.
NothingConfigured ==
    /\ NoStaticCredential
    /\ ~Supplied(context.secrets.OAUTH2_CLIENT_CREDENTIALS_CLIENT_SECRET)

\* invoke raised one of the errors of a failed acquisition: nothing configured,
\* the token endpoint's answer not successful, or no access_token in its body.
AcquisitionFailed ==
    /\ outcome.kind = "raised"
    /\ \/ outcome.error.message = MsgNoAuth
       \/ outcome.error.message = MsgNoAccessToken
       \/ StartsWith(outcome.error.message, MsgTokenFailed)

\* C34: in the address-based variant the token request comes before every
\* enable POST; with no authentication configured invoke raises and sends
\* nothing; a token request that is answered without success or without an
\* access_token makes invoke raise with no enable POST sent, so that an enable
\* POST of the client-credentials flow carries the token that was granted.
C34_CredentialsFirst ==
    InAddressInvoke =>
        /\ \A i, j \in DOMAIN posts :
               (posts[i].kind = "token" /\ posts[j].kind = "enable") => i < j
        /\ NothingConfigured =>
               /\ pc = "done"
               /\ outcome.kind = "raised"
               /\ posts = <<>>
        /\ (NothingConfigured /\ Supplied(GivenAddress)) => RaisedMessage(MsgNoAuth)
        /\ AcquisitionFailed => InvokePosts = <<>>
        /\ pc = "token_fetch" => InvokePosts = <<>>
        /\ (NoStaticCredential /\ InvokePosts # <<>>) =>
               /\ posts[1].kind = "token"
               /\ InvokePosts[1].authorization = BearerPrefix \o GrantedToken

\* The token endpoint answered without an access_token: invoke raised, and the
\* token request is the only request it sent.
C34_Witness ==
    /\ InAddressInvoke
    /\ RaisedMessage(MsgNoAccessToken)
    /\ Len(posts) = 1
    /\ posts[1].kind = "token"

\* The token endpoint answered 401: invoke raised after the token request alone.
C34_WitnessRefused ==
    /\ InAddressInvoke
    /\ outcome.kind = "raised"
    /\ StartsWith(outcome.error.message, MsgTokenFailed \o <<"4","0","1">>)
    /\ Len(posts) = 1

\* The token was granted: the enable POST follows the token request.
C34_WitnessGranted ==
    /\ InAddressInvoke
    /\ outcome.kind = "returned"
    /\ Len(posts) = 2
    /\ posts[1].kind = "token"
    /\ posts[2].kind = "enable"

\* ---------------------------------------------------------------------------
\* C35: `error` terminates
\* ---------------------------------------------------------------------------

\* The invocation of `error` has ended, by a returned result or a raised error
\* and not both.
ErrorEnded ==
    /\ InDomainError
    /\ pc = "done"
    /\ \/ outcome.kind = "returned" /\ outcome.error = NoError
       \/ outcome.kind = "raised" /\ outcome.result = NoResult

\* C35: every invocation of `error` of the domain-based variant ends, with a
\* returned success result or else with a raised error, when the backoff timer
\* fires and every network call completes; it waits at most twice and retries
\* at most twice.
C35_ErrorTerminates ==
    /\ InDomainError ~> ErrorEnded
    /\ [](InDomainError => (Len(ErrorWaits) <= 2 /\ Len(ErrorPosts) <= 2))
    /\ []((InDomainError /\ pc = "done") => ErrorEnded)

\* `error` ended after two waits and two retries, the longest run it has.
C35_Witness ==
    /\ ErrorEnded
    /\ Len(ErrorWaits) = 2
    /\ Len(ErrorPosts) = 2
    /\ Len(resps) = 2

====
